---------------------------- MODULE Spec2Model ----------------------------
(***************************************************************************)
(* B-Transfer: the chunked-upload session manager (src/ultra_upload.py)    *)
(* and the HTTP handlers that drive it (src/b_transfer_server.py).         *)
(*                                                                         *)
(* Request threads are the processes of Procs.  Every "with                *)
(* self.upload_lock:" block of the source is one step, taken when the lock *)
(* is free: what a thread does while it holds the lock is seen by no other *)
(* thread.  Code between two blocks runs without the lock and is a step of *)
(* its own wherever it reads or writes what other threads share; code that *)
(* touches only the thread's own variables belongs to the step before it.  *)
(***************************************************************************)
EXTENDS Integers, Sequences, FiniteSets, TLC

(***************************************************************************)
(* Bounds of the model.                                                    *)
(***************************************************************************)
MaxCalls == 4
MaxSerialCalls == 3
MaxClock == 1
MaxSessions == 2
MaxChunks == 3
MaxBlocks == 2
MaxLockCalls == 3
MaxLockSerialCalls == 2
MaxStoreCalls == 4
MaxMirrorCalls == 3
MaxUploadCalls == 3

Procs == {1, 2}
NoProc == 0

(***************************************************************************)
(* Byte counts.  Python integers are unbounded and the size limit of the   *)
(* server is 5 GiB, so a byte count n is kept as two limbs,                *)
(* n = hi * 2^30 + lo with 0 <= lo < 2^30.                                 *)
(***************************************************************************)
Limb == 1024 * 1024 * 1024
Big(hi, lo) == [hi |-> hi, lo |-> lo]
BigOf(n) == Big(n \div Limb, n % Limb)
BigGT(a, b) == a.hi > b.hi \/ (a.hi = b.hi /\ a.lo > b.lo)
BigLE(a, b) == ~BigGT(a, b)
Zero == BigOf(0)

MAX_FILE_SIZE_PER_UPLOAD == Big(5, 0)

ALLOWED_EXTENSIONS == {"txt", "pdf", "png", "zip"}

\* filename.rsplit('.', 1)[1].lower() in ALLOWED_EXTENSIONS, with a file name
\* kept as its stem and its extension ("" when the name has no dot).
allowed_file(filename) == filename.ext # "" /\ filename.ext \in ALLOWED_EXTENSIONS

chunk_size == 1048576
enable_compression == TRUE
COMPRESS_MIN == 1024
BLOCK == 16
HEADER == 64
MIN_ENVELOPE == 80

\* A chunk count that rounds down: total_size // chunk_size.
WholeChunks(total_size) ==
    total_size.hi * (Limb \div chunk_size) + (total_size.lo \div chunk_size)
\* (total_size + chunk_size - 1) // chunk_size on the two limbs; chunk_size
\* divides 2^30, so the high limb contributes hi * (2^30 / chunk_size) exactly.
TotalChunks(total_size) ==
    total_size.hi * (Limb \div chunk_size)
        + ((total_size.lo + chunk_size - 1) \div chunk_size)

(***************************************************************************)
(* Payloads.  A payload is known by its name, its length and the length    *)
(* gzip gives it; a byte string is a payload, raw or gzip-compressed.      *)
(***************************************************************************)
Payloads ==
    { [name |-> "s", len |-> 512,  zlen |-> 90],
      [name |-> "z", len |-> 2048, zlen |-> 120],
      [name |-> "r", len |-> 2048, zlen |-> 2071] }

Raw(p) == [src |-> p, gz |-> FALSE]
len(data) == IF data.gz THEN data.src.zlen ELSE data.src.len
gzip_compress(data) == [src |-> data.src, gz |-> TRUE]
IsGzip(data) == data.gz
gzip_decompress(data) == [src |-> data.src, gz |-> FALSE]
md5(data) == <<"md5", data.src.name, data.gz>>

(***************************************************************************)
(* Finite maps (Python dicts).                                             *)
(***************************************************************************)
EmptyMap == [k \in {} |-> 0]
Put(f, k, v) == [x \in DOMAIN f \cup {k} |-> IF x = k THEN v ELSE f[x]]
Del(f, k) == [x \in DOMAIN f \ {k} |-> f[x]]

VARIABLES
    now,             \* the clock read by time.time() and datetime.now()
    sessions,        \* the UploadSession objects ever built, by reference
    active_uploads,  \* UltraUploadManager.active_uploads: session id -> ref
    upload_lock,     \* UltraUploadManager.upload_lock: its holder or NoProc
    files,           \* the files of UPLOAD_FOLDER: path -> written content
    meta,            \* the .meta files of UPLOAD_FOLDER: path -> metadata
    pc,              \* where each request thread stands
    frame,           \* the local variables of each request thread
    calls,           \* the number of requests started so far
    source,          \* the file a client uploads in chunks (SpecRoundTrip)
    crypt,           \* encrypt_file / decrypt_file: data, envelope, locals (SpecCipher)
    redis            \* UltraUploadManager.redis_client and the keys it holds (SpecMirror)

server_data == <<now, sessions, active_uploads, upload_lock, files, meta>>
server == <<now, sessions, active_uploads, upload_lock, files, meta, pc, frame, calls>>
vars == <<server, source, crypt, redis>>
(***************************************************************************)
(* Inputs of the requests.                                                 *)
(***************************************************************************)
Filenames == { [stem |-> "a", ext |-> "txt"], [stem |-> "b", ext |-> ""] }
TotalSizes == { Zero, BigOf(1), BigOf(chunk_size + 1), Big(5, 1) }
ChunkIds == -1 .. 2
Clock == 0 .. MaxClock

\* hashlib.sha256(f"{filename}{time.time()}".encode()).hexdigest()[:16]: the
\* digest is a function of the file name and of the clock reading and of
\* nothing else; it is kept as the pair it is computed from.
SessionIdOf(filename, t) == <<filename, t>>
SessionIds == { SessionIdOf(f, t) : f \in {g \in Filenames : allowed_file(g)}, t \in Clock }

NoChunk == [chunk_id |-> 0, data |-> Raw([name |-> "", len |-> 0, zlen |-> 0]),
            checksum |-> <<>>, size |-> 0, compressed |-> FALSE, upload_time |-> 0]
NoResult == [status |-> "", error |-> ""]
Ok(fields) == [status |-> "success", error |-> ""] @@ fields
Err(message) == [status |-> "error", error |-> message]

InitFrame ==
    [ op |-> "", session_id |-> <<>>, total_size |-> Zero, chunk_id |-> 0, chunk_data |-> NoChunk.data,
      session |-> 0, chunk |-> NoChunk, output_path |-> <<>>, fault |-> "none",
      max_age |-> 0, expired_sessions |-> {},
      progress |-> 0, elapsed_time |-> 0, iter_used |-> 0, uploaded_bytes |-> 0,
      password |-> "", metadata |-> <<>>, file_data |-> <<>>, encrypted_data |-> <<>>,
      result |-> NoResult ]

InitServer ==
    /\ now = 0
    /\ sessions = <<>>
    /\ active_uploads = EmptyMap
    /\ upload_lock = NoProc
    /\ files = EmptyMap
    /\ meta = EmptyMap
    /\ pc = [p \in Procs |-> "idle"]
    /\ frame = [p \in Procs |-> InitFrame]
    /\ calls = 0

\* Nothing encrypted yet.
InitCrypt ==
    [ pc |-> "idle", file_data |-> <<>>, password |-> "", envelope |-> <<>>,
      altered |-> "none", try_password |-> "", encrypted_data |-> <<>>,
      salt |-> <<>>, iv |-> <<>>, mac |-> <<>>, encrypted |-> <<>>, key |-> <<>>,
      padded_data |-> <<>>, result |-> NoResult ]

\* redis_client is None unless a redis_url was given and answered the ping.
NoRedis == [ client |-> "None", data |-> EmptyMap ]
Redis == [ client |-> "Redis", data |-> EmptyMap ]

\* The step after a block that is followed by an `if self.redis_client:`.
Then(mirror, next) == IF redis.client = "None" THEN next ELSE mirror

Init == InitServer /\ source = <<>> /\ crypt = InitCrypt /\ redis = NoRedis

\* The clock advances between any two steps.
Tick ==
    /\ now < MaxClock
    /\ now' = now + 1
    /\ UNCHANGED <<sessions, active_uploads, upload_lock, files, meta, pc, frame, calls, source, crypt, redis>>

\* A request is taken by a free thread; the threads are alike, so the first
\* free one takes it.  limit bounds the number of requests of a run.
Free(p, limit) ==
    /\ pc[p] = "idle"
    /\ \A q \in Procs : pc[q] = "idle" => ~(q < p)
    /\ calls < limit

Call(p, op, session_id) == [InitFrame EXCEPT !.op = op, !.session_id = session_id]

\* A request is over: its thread serves the next one.
Finish(p) ==
    /\ pc[p] = "done"
    /\ pc' = [pc EXCEPT ![p] = "idle"]
    /\ frame' = [frame EXCEPT ![p] = InitFrame]
    /\ UNCHANGED <<now, sessions, active_uploads, upload_lock, files, meta, calls, source, crypt, redis>>

(***************************************************************************)
(* POST /api/upload/session and UltraUploadManager.create_upload_session.  *)
(***************************************************************************)
NewSession(filename, total_size, t) ==
    [ session_id |-> SessionIdOf(filename, t),
      filename |-> filename,
      total_size |-> total_size,
      chunk_size |-> chunk_size,
      total_chunks |-> TotalChunks(total_size),
      uploaded_chunks |-> EmptyMap,
      start_time |-> t,
      last_activity |-> t,
      status |-> "uploading",
      compression_enabled |-> enable_compression ]

\* The handler's two checks of the request.
Rejected(filename, total_size) ==
    IF BigGT(total_size, MAX_FILE_SIZE_PER_UPLOAD)
       THEN "File size exceeds maximum limit"
       ELSE IF ~allowed_file(filename) THEN "File type not allowed" ELSE ""

\* The handler and the manager's method: the request is checked, the session
\* object is built and, in the locked block, put under its id whether or not
\* the id is in use.  The response repeats the manager's chunk computation.
api_create_upload_session(p, limit, filename, total_size) ==
    /\ Free(p, limit)
    /\ calls' = calls + 1
    /\ IF Rejected(filename, total_size) # ""
          THEN /\ frame' = [frame EXCEPT ![p] =
                      [Call(p, "create", <<>>) EXCEPT
                          !.total_size = total_size,
                          !.result = Err(Rejected(filename, total_size))]]
               /\ pc' = [pc EXCEPT ![p] = "done"]
               /\ UNCHANGED <<sessions, active_uploads>>
          ELSE /\ Len(sessions) < MaxSessions
               /\ pc' = [pc EXCEPT ![p] = Then("cs_redis", "done")]
               /\ upload_lock = NoProc
               /\ sessions' = Append(sessions, NewSession(filename, total_size, now))
               /\ active_uploads' =
                      Put(active_uploads, SessionIdOf(filename, now), Len(sessions) + 1)
               /\ frame' = [frame EXCEPT ![p] =
                      [Call(p, "create", SessionIdOf(filename, now)) EXCEPT
                          !.total_size = total_size,
                          !.session = Len(sessions) + 1,
                          !.result = Ok([ session_id |-> SessionIdOf(filename, now),
                                          total_size |-> total_size,
                                          chunk_size |-> chunk_size,
                                          total_chunks |-> TotalChunks(total_size) ])]]
    /\ UNCHANGED <<now, upload_lock, files, meta, source, crypt, redis>>

(***************************************************************************)
(* POST /api/upload/chunk and UltraUploadManager.upload_chunk.             *)
(***************************************************************************)
\* An index check that never fires (the check left out).
NoChunkIdInvalid(session, chunk_id) == FALSE
InvalidChunkId(session, chunk_id) == chunk_id >= session.total_chunks
\* A duplicate check that never fires (the check left out).
ChunkNeverUploaded(session, chunk_id) == FALSE
ChunkAlreadyUploaded(session, chunk_id) == chunk_id \in DOMAIN session.uploaded_chunks

\* What the first locked block answers: an error, or "" to go on.
ChunkCheck(session_id, chunk_id) ==
    IF session_id \notin DOMAIN active_uploads THEN "Upload session not found"
    ELSE IF InvalidChunkId(sessions[active_uploads[session_id]], chunk_id)
       THEN "Invalid chunk ID"
    ELSE IF ChunkAlreadyUploaded(sessions[active_uploads[session_id]], chunk_id)
       THEN "Chunk already uploaded"
    ELSE ""

\* The handler passes chunk_id = int(request.form['chunk_id']), any integer,
\* and the manager runs its first locked block.  The session object found
\* here is the one the rest of the call works on.
api_upload_chunk(p, limit, session_id, chunk_id, payload) ==
    /\ Free(p, limit)
    /\ upload_lock = NoProc
    /\ calls' = calls + 1
    /\ LET call == [Call(p, "chunk", session_id) EXCEPT
                       !.chunk_id = chunk_id, !.chunk_data = Raw(payload),
                       !.session = IF session_id \in DOMAIN active_uploads
                                      THEN active_uploads[session_id] ELSE 0]
       IN IF ChunkCheck(session_id, chunk_id) # ""
             THEN /\ frame' = [frame EXCEPT ![p] =
                         [call EXCEPT !.result = Err(ChunkCheck(session_id, chunk_id))]]
                  /\ pc' = [pc EXCEPT ![p] = "done"]
             ELSE /\ frame' = [frame EXCEPT ![p] = call]
                  /\ pc' = [pc EXCEPT ![p] = "uc_build"]
    /\ UNCHANGED <<now, sessions, active_uploads, upload_lock, files, meta, source, crypt, redis>>

\* The stored form of a payload: gzip's output when compression is on, the
\* payload is longer than 1 KB and gzip's output is shorter, else the payload.
\* A compression that is kept whatever its length.
CompressedWhenLong(chunk_data) ==
    /\ enable_compression
    /\ len(chunk_data) > COMPRESS_MIN
Compressed(chunk_data) ==
    /\ enable_compression
    /\ len(chunk_data) > COMPRESS_MIN
    /\ len(gzip_compress(chunk_data)) < len(chunk_data)
StoredData(chunk_data) ==
    IF Compressed(chunk_data) THEN gzip_compress(chunk_data) ELSE chunk_data

NewChunk(chunk_id, chunk_data, t) ==
    [ chunk_id |-> chunk_id,
      data |-> StoredData(chunk_data),
      checksum |-> md5(chunk_data),
      size |-> len(StoredData(chunk_data)),
      compressed |-> Compressed(chunk_data),
      upload_time |-> t ]

\* Without the lock: checksum, compression, the UploadChunk object with the
\* time it is built at.
upload_chunk_build(p) ==
    /\ pc[p] = "uc_build"
    /\ frame' = [frame EXCEPT ![p].chunk =
            NewChunk(frame[p].chunk_id, frame[p].chunk_data, now)]
    /\ pc' = [pc EXCEPT ![p] = "uc_store"]
    /\ UNCHANGED <<now, sessions, active_uploads, upload_lock, files, meta, calls, source, crypt, redis>>

\* A store that takes the chunk's arrival time as the time of the activity.
StoreChunkAtArrival(session, chunk, t) ==
    [session EXCEPT !.uploaded_chunks = Put(@, chunk.chunk_id, chunk),
                    !.last_activity = chunk.upload_time]
StoreChunk(session, chunk, t) ==
    [session EXCEPT !.uploaded_chunks = Put(@, chunk.chunk_id, chunk),
                    !.last_activity = t]

\* The second locked block: the chunk goes into the session object.
upload_chunk_store(p) ==
    /\ pc[p] = "uc_store"
    /\ upload_lock = NoProc
    /\ sessions' = [sessions EXCEPT ![frame[p].session] =
            StoreChunk(@, frame[p].chunk, now)]
    /\ pc' = [pc EXCEPT ![p] = Then("uc_redis", "uc_ret")]
    /\ UNCHANGED <<now, active_uploads, upload_lock, files, meta, frame, calls, source, crypt, redis>>

\* The result, read from the session object without the lock.  The progress
\* len(uploaded_chunks) / total_chunks * 100 raises ZeroDivisionError when
\* total_chunks is 0, which the handler turns into its error response.
upload_chunk_return(p) ==
    /\ pc[p] = "uc_ret"
    /\ LET f == frame[p]
           session == sessions[f.session] IN
       frame' = [frame EXCEPT ![p].result =
            IF session.total_chunks = 0
               THEN Err("Chunk upload failed: division by zero")
               ELSE Ok([ chunk_id |-> f.chunk_id,
                         checksum |-> f.chunk.checksum,
                         size |-> f.chunk.size,
                         compressed |-> f.chunk.compressed,
                         uploaded |-> Cardinality(DOMAIN session.uploaded_chunks),
                         total_chunks |-> session.total_chunks ])]
    /\ pc' = [pc EXCEPT ![p] = "done"]
    /\ UNCHANGED <<now, sessions, active_uploads, upload_lock, files, meta, calls, source, crypt, redis>>

(***************************************************************************)
(* GET /api/upload/progress/<id> and UltraUploadManager.get_upload_progress*)
(* (also the first call of the assemble handler).                          *)
(***************************************************************************)
\* The locked block: only the lookup of the session object.
Lookup(p, op, session_id, found, missing) ==
    /\ upload_lock = NoProc
    /\ calls' = calls + 1
    /\ IF session_id \notin DOMAIN active_uploads
          THEN /\ frame' = [frame EXCEPT ![p] =
                      [Call(p, op, session_id) EXCEPT !.result = Err(missing)]]
               /\ pc' = [pc EXCEPT ![p] = "done"]
          ELSE /\ frame' = [frame EXCEPT ![p] =
                      [Call(p, op, session_id) EXCEPT !.session = active_uploads[session_id]]]
               /\ pc' = [pc EXCEPT ![p] = found]
    /\ UNCHANGED <<now, sessions, active_uploads, upload_lock, files, meta, source, crypt, redis>>

api_get_upload_progress(p, limit, session_id) ==
    /\ Free(p, limit)
    /\ Lookup(p, "progress", session_id, "gp_percent", "Upload session not found")

RECURSIVE SumSizes(_, _)
SumSizes(chunks, ids) ==
    IF ids = {} THEN 0
    ELSE LET i == CHOOSE x \in ids : TRUE
         IN chunks[i].size + SumSizes(chunks, ids \ {i})

\* The rest of get_upload_progress runs without the lock, on the session
\* object found: each read of the chunk map sees the map as it is then.

\* progress = len(session.uploaded_chunks) / session.total_chunks * 100, kept
\* as the count it is computed from.  The division raises ZeroDivisionError
\* when total_chunks is 0, which the handler answers with its error response.
get_upload_progress_percent(p) ==
    /\ pc[p] = "gp_percent"
    /\ LET session == sessions[frame[p].session] IN
       IF session.total_chunks = 0
          THEN /\ frame' = [frame EXCEPT ![p].result =
                      Err("Progress retrieval failed: division by zero")]
               /\ pc' = [pc EXCEPT ![p] = "done"]
          ELSE /\ frame' = [frame EXCEPT ![p].progress =
                      Cardinality(DOMAIN session.uploaded_chunks),
                                         ![p].elapsed_time = now - session.start_time]
               /\ pc' = [pc EXCEPT ![p] = "gp_iter"]
    /\ UNCHANGED <<now, sessions, active_uploads, upload_lock, files, meta, calls, source, crypt, redis>>

\* sum(chunk.size for chunk in session.uploaded_chunks.values()) starts: the
\* iterator notes the number of entries of the dict.
get_upload_progress_iter(p) ==
    /\ pc[p] = "gp_iter"
    /\ frame' = [frame EXCEPT ![p].iter_used =
            Cardinality(DOMAIN sessions[frame[p].session].uploaded_chunks)]
    /\ pc' = [pc EXCEPT ![p] = "gp_bytes"]
    /\ UNCHANGED <<now, sessions, active_uploads, upload_lock, files, meta, calls, source, crypt, redis>>

\* The iteration: a dict whose number of entries changed since the iterator
\* was made raises RuntimeError, which the handler answers with its error
\* response; otherwise the sizes are summed.
get_upload_progress_bytes(p) ==
    /\ pc[p] = "gp_bytes"
    /\ LET session == sessions[frame[p].session] IN
       IF Cardinality(DOMAIN session.uploaded_chunks) # frame[p].iter_used
          THEN /\ frame' = [frame EXCEPT ![p].result =
                      Err("Progress retrieval failed: dictionary changed size during iteration")]
               /\ pc' = [pc EXCEPT ![p] = "done"]
          ELSE /\ frame' = [frame EXCEPT ![p].uploaded_bytes =
                      SumSizes(session.uploaded_chunks, DOMAIN session.uploaded_chunks)]
               /\ pc' = [pc EXCEPT ![p] = "gp_report"]
    /\ UNCHANGED <<now, sessions, active_uploads, upload_lock, files, meta, calls, source, crypt, redis>>

\* speed = uploaded_bytes / elapsed_time if elapsed_time > 0 else 0, kept as
\* the fraction <<bytes, seconds>>, a speed of 0 as <<0, 1>>.
NoSpeed == <<0, 1>>
Speed(uploaded_bytes, elapsed_time) ==
    IF elapsed_time > 0 /\ uploaded_bytes # 0 THEN <<uploaded_bytes, elapsed_time>> ELSE NoSpeed

\* remaining_bytes = session.total_size - uploaded_bytes, below zero when more
\* was uploaded than declared.
BigMinus(a, n) ==
    IF a.lo >= n THEN Big(a.hi, a.lo - n) ELSE Big(a.hi - 1, a.lo + Limb - n)

\* eta = remaining_bytes / speed if speed > 0 else 0.  A quotient is kept by
\* its operands; no bytes at any speed, and the 0 of the else, are 0 seconds.
ZeroSeconds == [bytes |-> Zero, speed |-> <<1, 1>>]
Eta(remaining_bytes, speed) ==
    IF speed[1] > 0 /\ remaining_bytes # Zero
       THEN [bytes |-> remaining_bytes, speed |-> speed]
       ELSE ZeroSeconds

\* The returned dict: the values computed so far and fresh reads of the
\* session.  progress_percent is kept as the fraction <<numerator, denominator>>.
ProgressReport(session, progress, uploaded_bytes, elapsed_time) ==
    [ filename |-> session.filename,
      total_size |-> session.total_size,
      uploaded_size |-> uploaded_bytes,
      total_chunks |-> session.total_chunks,
      uploaded_chunks |-> Cardinality(DOMAIN session.uploaded_chunks),
      progress_percent |-> <<progress * 100, session.total_chunks>>,
      speed_bps |-> Speed(uploaded_bytes, elapsed_time),
      elapsed_time |-> elapsed_time,
      eta_seconds |-> Eta(BigMinus(session.total_size, uploaded_bytes),
                          Speed(uploaded_bytes, elapsed_time)),
      status |-> session.status ]

get_upload_progress_report(p) ==
    /\ pc[p] = "gp_report"
    /\ frame' = [frame EXCEPT ![p].result =
            Ok(ProgressReport(sessions[frame[p].session], frame[p].progress,
                              frame[p].uploaded_bytes, frame[p].elapsed_time))]
    /\ pc' = [pc EXCEPT ![p] = "done"]
    /\ UNCHANGED <<now, sessions, active_uploads, upload_lock, files, meta, calls, source, crypt, redis>>

(***************************************************************************)
(* POST /api/upload/assemble and UltraUploadManager.assemble_file.         *)
(***************************************************************************)
\* The handler starts with get_upload_progress, for the file name.
api_assemble_file(p, limit, session_id) ==
    /\ Free(p, limit)
    /\ Lookup(p, "assemble", session_id, "ha_path", "Session not found")

\* werkzeug's secure_filename keeps the base name of the path it is given.
secure_filename(filename) == [stem |-> filename.stem, ext |-> filename.ext]

\* The handler's loop: name, name_1, name_2, ... until one does not exist.
\* A path is the file name and the counter appended to it (0: none).
RECURSIVE FreePath(_, _, _)
FreePath(existing, name, counter) ==
    IF <<name, counter>> \in existing
       THEN FreePath(existing, name, counter + 1)
       ELSE <<name, counter>>

\* Without the lock: the rest of get_upload_progress (of the report only the
\* file name is used, which never changes), then the choice of the output
\* path among the names that do not exist yet.
api_assemble_file_path(p) ==
    /\ pc[p] = "ha_path"
    /\ LET session == sessions[frame[p].session] IN
       IF session.total_chunks = 0
          THEN /\ frame' = [frame EXCEPT ![p].result =
                      Err("File assembly failed: division by zero")]
               /\ pc' = [pc EXCEPT ![p] = "done"]
          ELSE /\ frame' = [frame EXCEPT ![p].output_path =
                      FreePath(DOMAIN files, secure_filename(session.filename), 0)]
               /\ pc' = [pc EXCEPT ![p] = "af_check"]
    /\ UNCHANGED <<now, sessions, active_uploads, upload_lock, files, meta, calls, source, crypt, redis>>

\* A completeness check that lets a session with missing chunks pass.
NoChunkTooMany(session) ==
    Cardinality(DOMAIN session.uploaded_chunks) <= session.total_chunks
AllChunksUploaded(session) ==
    Cardinality(DOMAIN session.uploaded_chunks) = session.total_chunks

\* The first locked block: lookup, completeness check, status = 'assembling'.
\* An error result makes the handler answer 500 without cleaning up.
assemble_file_check(p) ==
    /\ pc[p] = "af_check"
    /\ upload_lock = NoProc
    /\ LET f == frame[p] IN
       IF f.session_id \notin DOMAIN active_uploads
          THEN /\ frame' = [frame EXCEPT ![p].result = Err("Upload session not found"),
                                         ![p].session = 0]
               /\ pc' = [pc EXCEPT ![p] = "done"]
               /\ UNCHANGED sessions
          ELSE LET ref == active_uploads[f.session_id] IN
               IF ~AllChunksUploaded(sessions[ref])
                  THEN /\ frame' = [frame EXCEPT ![p].result = Err("Not all chunks uploaded"),
                                                 ![p].session = ref]
                       /\ pc' = [pc EXCEPT ![p] = "done"]
                       /\ UNCHANGED sessions
                  ELSE /\ sessions' = [sessions EXCEPT ![ref].status = "assembling"]
                       /\ frame' = [frame EXCEPT ![p].session = ref]
                       /\ pc' = [pc EXCEPT ![p] = "af_write"]
    /\ UNCHANGED <<now, active_uploads, upload_lock, files, meta, calls, source, crypt, redis>>

\* sorted(session.uploaded_chunks.values(), key=lambda x: x.chunk_id)
RECURSIVE SortedFrom(_, _)
SortedFrom(chunks, ids) ==
    IF ids = {} THEN <<>>
    ELSE LET lo == CHOOSE x \in ids : \A y \in ids : x <= y
         IN <<chunks[lo]>> \o SortedFrom(chunks, ids \ {lo})
SortedChunks(session) == SortedFrom(session.uploaded_chunks, DOMAIN session.uploaded_chunks)

\* A loop that writes every chunk as it is stored, compressed or not.
WrittenAsStored(chunk) == chunk.data
\* What the loop writes for one chunk.
Written(chunk) == IF chunk.compressed THEN gzip_decompress(chunk.data) ELSE chunk.data
WrittenAll(sorted_chunks) == [k \in 1 .. Len(sorted_chunks) |-> Written(sorted_chunks[k])]

RECURSIVE FileSize(_)
FileSize(content) ==
    IF content = <<>> THEN 0 ELSE len(Head(content)) + FileSize(Tail(content))

\* The outcomes of the unlocked part of assemble_file on the chunks it reads:
\* all written; os.makedirs or open raises (the file is untouched); the write
\* of chunk k raises (the file holds the chunks before it); gzip.decompress of
\* the compressed chunk k raises.
Outcomes(sorted_chunks) ==
    { [kind |-> "ok", at |-> 0], [kind |-> "open_error", at |-> 0] }
    \cup { [kind |-> "write_error", at |-> k] : k \in 1 .. Len(sorted_chunks) }
    \cup { [kind |-> "gzip_error", at |-> k] :
              k \in { j \in 1 .. Len(sorted_chunks) : sorted_chunks[j].compressed } }

OutcomeKinds == {"ok", "open_error", "write_error", "gzip_error"}

\* Without the lock: the chunks are read from the session object, sorted and
\* written; kinds are the outcomes the environment may produce.  An exception
\* leads to the except clause; a failed decompression is caught in the loop,
\* which returns its error from there.
assemble_file_write(p, kinds) ==
    /\ pc[p] = "af_write"
    /\ LET f == frame[p]
           sorted_chunks == SortedChunks(sessions[f.session])
           content == WrittenAll(sorted_chunks)
       IN \E outcome \in { o \in Outcomes(sorted_chunks) : o.kind \in kinds } :
             CASE outcome.kind = "ok" ->
                    /\ files' = Put(files, f.output_path, content)
                    /\ frame' = [frame EXCEPT ![p].result =
                            Ok([ filename |-> sessions[f.session].filename,
                                 final_size |-> FileSize(content),
                                 output_path |-> f.output_path,
                                 total_chunks |-> sessions[f.session].total_chunks ])]
                    /\ pc' = [pc EXCEPT ![p] = "af_completed"]
               [] outcome.kind = "open_error" ->
                    /\ UNCHANGED files
                    /\ frame' = [frame EXCEPT ![p].fault = "io"]
                    /\ pc' = [pc EXCEPT ![p] = "af_failed"]
               [] outcome.kind = "write_error" ->
                    /\ files' = Put(files, f.output_path, SubSeq(content, 1, outcome.at - 1))
                    /\ frame' = [frame EXCEPT ![p].fault = "io"]
                    /\ pc' = [pc EXCEPT ![p] = "af_failed"]
               [] outcome.kind = "gzip_error" ->
                    /\ files' = Put(files, f.output_path, SubSeq(content, 1, outcome.at - 1))
                    /\ frame' = [frame EXCEPT ![p].fault = "gzip",
                                              ![p].result = Err("Decompression failed")]
                    /\ pc' = [pc EXCEPT ![p] = "done"]
    /\ UNCHANGED <<now, sessions, active_uploads, upload_lock, meta, calls, source, crypt, redis>>

\* An assembly that fails when the size written is not the declared one.
assemble_file_size_checked(p) ==
    /\ pc[p] = "af_completed"
    /\ upload_lock = NoProc
    /\ IF BigOf(frame[p].result.final_size) # sessions[frame[p].session].total_size
          THEN /\ sessions' = [sessions EXCEPT ![frame[p].session].status = "failed"]
               /\ frame' = [frame EXCEPT ![p].result = Err("Assembly failed")]
               /\ pc' = [pc EXCEPT ![p] = "done"]
          ELSE /\ sessions' = [sessions EXCEPT ![frame[p].session].status = "completed"]
               /\ frame' = frame
               /\ pc' = [pc EXCEPT ![p] = "af_clear"]
    /\ UNCHANGED <<now, active_uploads, upload_lock, files, meta, calls, source, crypt, redis>>
\* with self.upload_lock: session.status = 'completed'
assemble_file_completed(p) ==
    /\ pc[p] = "af_completed"
    /\ upload_lock = NoProc
    /\ sessions' = [sessions EXCEPT ![frame[p].session].status = "completed"]
    /\ pc' = [pc EXCEPT ![p] = "af_clear"]
    /\ UNCHANGED <<now, active_uploads, upload_lock, files, meta, frame, calls, source, crypt, redis>>

\* with self.upload_lock: session.uploaded_chunks.clear(); then the success
\* result is returned to the handler.
assemble_file_clear(p) ==
    /\ pc[p] = "af_clear"
    /\ upload_lock = NoProc
    /\ sessions' = [sessions EXCEPT ![frame[p].session].uploaded_chunks = EmptyMap]
    /\ pc' = [pc EXCEPT ![p] = Then("af_redis", "ha_finish")]
    /\ UNCHANGED <<now, active_uploads, upload_lock, files, meta, frame, calls, source, crypt, redis>>

\* except Exception: with self.upload_lock: session.status = 'failed'
assemble_file_failed(p) ==
    /\ pc[p] = "af_failed"
    /\ upload_lock = NoProc
    /\ sessions' = [sessions EXCEPT ![frame[p].session].status = "failed"]
    /\ frame' = [frame EXCEPT ![p].result = Err("Assembly failed")]
    /\ pc' = [pc EXCEPT ![p] = "done"]
    /\ UNCHANGED <<now, active_uploads, upload_lock, files, meta, calls, source, crypt, redis>>

(***************************************************************************)
(* UltraUploadManager.cleanup_session and cleanup_expired_sessions.        *)
(***************************************************************************)
\* The locked block of cleanup_session: the session's chunks are cleared and
\* its entry deleted.
CleanedSessions(session_id) ==
    IF session_id \in DOMAIN active_uploads
       THEN [sessions EXCEPT ![active_uploads[session_id]].uploaded_chunks = EmptyMap]
       ELSE sessions
\* A cleanup that empties the whole registry.
NoUploads(session_id) == EmptyMap
CleanedUploads(session_id) == Del(active_uploads, session_id)

\* The handler after a success: save_file_metadata, then cleanup_session.
api_assemble_file_finish(p) ==
    /\ pc[p] = "ha_finish"
    /\ upload_lock = NoProc
    /\ meta' = Put(meta, frame[p].output_path,
            [ original_name |-> frame[p].result.filename,
              size |-> frame[p].result.final_size,
              session_id |-> frame[p].session_id,
              is_locked |-> FALSE ])
    /\ sessions' = CleanedSessions(frame[p].session_id)
    /\ active_uploads' = CleanedUploads(frame[p].session_id)
    /\ pc' = [pc EXCEPT ![p] = Then("cl_redis", "done")]
    /\ UNCHANGED <<now, upload_lock, files, frame, calls, source, crypt, redis>>

call_cleanup_session(p, limit, session_id) ==
    /\ Free(p, limit)
    /\ upload_lock = NoProc
    /\ calls' = calls + 1
    /\ sessions' = CleanedSessions(session_id)
    /\ active_uploads' = CleanedUploads(session_id)
    /\ frame' = [frame EXCEPT ![p] =
            [Call(p, "cleanup", session_id) EXCEPT
                !.session = IF session_id \in DOMAIN active_uploads
                               THEN active_uploads[session_id] ELSE 0,
                !.result = Ok(EmptyMap)]]
    /\ pc' = [pc EXCEPT ![p] = Then("cl_redis", "done")]
    /\ UNCHANGED <<now, upload_lock, files, meta, source, crypt, redis>>

MaxAges == {0, 1}

\* session.last_activity < datetime.now() - timedelta(hours=max_age_hours)
Expired(session, t, max_age) == session.last_activity < t - max_age
ExpiredSessions(t, max_age) ==
    { id \in DOMAIN active_uploads : Expired(sessions[active_uploads[id]], t, max_age) }

\* The locked block of cleanup_expired_sessions: the expired ids are listed
\* and cleanup_session is called for the first of them with the lock still
\* held.  cleanup_session starts by taking that lock, which is not reentrant:
\* the thread waits at "ex_cleanup" for a lock that only itself could
\* release.  With nothing expired the block ends and the lock is released.
call_cleanup_expired_sessions(p, limit, max_age) ==
    /\ Free(p, limit)
    /\ upload_lock = NoProc
    /\ calls' = calls + 1
    /\ IF ExpiredSessions(now, max_age) = {}
          THEN /\ UNCHANGED upload_lock
               /\ frame' = [frame EXCEPT ![p] =
                      [Call(p, "expire", <<>>) EXCEPT !.max_age = max_age,
                                                      !.result = Ok(EmptyMap)]]
               /\ pc' = [pc EXCEPT ![p] = "done"]
          ELSE /\ upload_lock' = p
               /\ frame' = [frame EXCEPT ![p] =
                      [Call(p, "expire", <<>>) EXCEPT
                          !.max_age = max_age,
                          !.expired_sessions = ExpiredSessions(now, max_age)]]
               /\ pc' = [pc EXCEPT ![p] = "ex_cleanup"]
    /\ UNCHANGED <<now, sessions, active_uploads, files, meta, source, crypt, redis>>

(***************************************************************************)
(* The server: any thread takes any step; requests carry any input.        *)
(***************************************************************************)
(***************************************************************************)
(* The Redis mirror.  Each `if self.redis_client:` block is a try whose    *)
(* except prints and goes on; the manager writes keys and never reads one. *)
(* raising is the number of the block's first call that raises, 0 if none  *)
(* does.                                                                   *)
(***************************************************************************)
Raising == 0 .. 2

\* redis_client.setex(name, time, value) and redis_client.delete(name)
setex(data, name, value) == Put(data, name, value)
delete(data, name) == Del(data, name)

\* An exception of the mirror that ends the request.
Propagated(raising, next) == IF raising # 0 THEN "done" ELSE next
\* except Exception as e: print(...), and the method goes on.
Caught(raising, next) == next

\* create_upload_session, after the session is registered.
create_upload_session_redis(p, raising) ==
    /\ pc[p] = "cs_redis"
    /\ raising \in 0 .. 1
    /\ LET session == sessions[frame[p].session] IN
       redis' = [redis EXCEPT !.data =
            IF raising = 1 THEN @
            ELSE setex(@, <<"upload_session", frame[p].session_id>>,
                       [ filename |-> session.filename,
                         total_size |-> frame[p].total_size,
                         total_chunks |-> TotalChunks(frame[p].total_size),
                         status |-> "uploading",
                         start_time |-> session.start_time ])]
    /\ pc' = [pc EXCEPT ![p] = Caught(raising, "done")]
    /\ UNCHANGED <<server_data, frame, calls, source, crypt>>

\* upload_chunk, after the chunk is stored: the progress is computed inside
\* the try, so its ZeroDivisionError is caught there as well.
upload_chunk_redis(p, raising) ==
    /\ pc[p] = "uc_redis"
    /\ raising \in 0 .. 1
    /\ LET session == sessions[frame[p].session] IN
       redis' = [redis EXCEPT !.data =
            IF raising = 1 \/ session.total_chunks = 0 THEN @
            ELSE setex(@, <<"upload_progress", frame[p].session_id>>,
                       [ uploaded_chunks |-> Cardinality(DOMAIN session.uploaded_chunks),
                         total_chunks |-> session.total_chunks,
                         progress_percent |->
                             <<Cardinality(DOMAIN session.uploaded_chunks) * 100,
                               session.total_chunks>>,
                         last_chunk_time |-> frame[p].chunk.upload_time ])]
    /\ pc' = [pc EXCEPT ![p] = Caught(raising, "uc_ret")]
    /\ UNCHANGED <<server_data, frame, calls, source, crypt>>

\* assemble_file, after the chunks are cleared: setex, then delete.
assemble_file_redis(p, raising) ==
    /\ pc[p] = "af_redis"
    /\ LET session == sessions[frame[p].session]
           completed == setex(redis.data, <<"upload_completed", frame[p].session_id>>,
                              [ filename |-> session.filename,
                                final_size |-> frame[p].result.final_size,
                                completion_time |-> now,
                                total_chunks |-> session.total_chunks ]) IN
       redis' = [redis EXCEPT !.data =
            CASE raising = 1 -> @
              [] raising = 2 -> completed
              [] OTHER -> delete(completed, <<"upload_progress", frame[p].session_id>>)]
    /\ pc' = [pc EXCEPT ![p] = Caught(raising, "ha_finish")]
    /\ UNCHANGED <<server_data, frame, calls, source, crypt>>

\* cleanup_session, after the locked block: two deletes.
cleanup_session_redis(p, raising) ==
    /\ pc[p] = "cl_redis"
    /\ redis' = [redis EXCEPT !.data =
            CASE raising = 1 -> @
              [] raising = 2 -> delete(@, <<"upload_session", frame[p].session_id>>)
              [] OTHER -> delete(delete(@, <<"upload_session", frame[p].session_id>>),
                                 <<"upload_progress", frame[p].session_id>>)]
    /\ pc' = [pc EXCEPT ![p] = Caught(raising, "done")]
    /\ UNCHANGED <<server_data, frame, calls, source, crypt>>

MirrorStep(p) ==
    \/ \E raising \in Raising : create_upload_session_redis(p, raising)
    \/ \E raising \in Raising : upload_chunk_redis(p, raising)
    \/ \E raising \in Raising : assemble_file_redis(p, raising)
    \/ \E raising \in Raising : cleanup_session_redis(p, raising)

Step(p) ==
    \/ upload_chunk_build(p)
    \/ upload_chunk_store(p)
    \/ upload_chunk_return(p)
    \/ get_upload_progress_percent(p)
    \/ get_upload_progress_iter(p)
    \/ get_upload_progress_bytes(p)
    \/ get_upload_progress_report(p)
    \/ api_assemble_file_path(p)
    \/ assemble_file_check(p)
    \/ assemble_file_write(p, OutcomeKinds)
    \/ assemble_file_completed(p)
    \/ assemble_file_clear(p)
    \/ assemble_file_failed(p)
    \/ api_assemble_file_finish(p)
    \/ Finish(p)

\* The payloads that are stored in fewer bytes than gzip would need or than
\* they have: the short ones and the ones gzip shrinks.
ShrinkingPayloads == { d \in Payloads : d.len <= COMPRESS_MIN \/ d.zlen < d.len }

Request(p, limit, payloads) ==
    \/ \E f \in Filenames, n \in TotalSizes : api_create_upload_session(p, limit, f, n)
    \/ \E id \in SessionIds, i \in ChunkIds, d \in payloads :
          api_upload_chunk(p, limit, id, i, d)
    \/ \E id \in SessionIds : api_get_upload_progress(p, limit, id)
    \/ \E id \in SessionIds : api_assemble_file(p, limit, id)
    \/ \E id \in SessionIds : call_cleanup_session(p, limit, id)
    \/ \E a \in MaxAges : call_cleanup_expired_sessions(p, limit, a)

Next ==
    \/ Tick
    \/ \E p \in Procs : Step(p)
    \/ \E p \in Procs : Request(p, MaxCalls, ShrinkingPayloads)

Spec == Init /\ [][Next]_vars

\* The same server with one request at a time.
SerialNext ==
    \/ Tick
    \/ Step(1)
    \/ Request(1, MaxSerialCalls, Payloads)

SpecSerial == Init /\ [][SerialNext]_vars

\* The payloads stored as they are sent: neither the times of a session nor
\* the mirror depend on a chunk's bytes.
ShortPayloads == { d \in Payloads : d.len <= COMPRESS_MIN }

\* Sessions are created and chunks uploaded on two threads.
UploadStep(p) ==
    \/ upload_chunk_build(p)
    \/ upload_chunk_store(p)
    \/ upload_chunk_return(p)
    \/ Finish(p)

UploadRequest(p, limit, payloads) ==
    \/ \E f \in Filenames, n \in TotalSizes : api_create_upload_session(p, limit, f, n)
    \/ \E id \in SessionIds, i \in ChunkIds, d \in payloads :
          api_upload_chunk(p, limit, id, i, d)

UploadNext ==
    \/ Tick
    \/ \E p \in Procs : UploadStep(p)
    \/ \E p \in Procs : UploadRequest(p, MaxUploadCalls, ShortPayloads)

SpecUploads == Init /\ [][UploadNext]_vars

\* One request at a time, with or without a Redis client.
InitMirror == InitServer /\ source = <<>> /\ crypt = InitCrypt /\ redis \in { NoRedis, Redis }

\* The five operations that have a mirror block or are served from the
\* registry the blocks stand next to.
MirrorRequest(p, limit, payloads) ==
    \/ \E f \in Filenames, n \in TotalSizes : api_create_upload_session(p, limit, f, n)
    \/ \E id \in SessionIds, i \in ChunkIds, d \in payloads :
          api_upload_chunk(p, limit, id, i, d)
    \/ \E id \in SessionIds : api_get_upload_progress(p, limit, id)
    \/ \E id \in SessionIds : api_assemble_file(p, limit, id)
    \/ \E id \in SessionIds : call_cleanup_session(p, limit, id)

MirrorNext ==
    \/ Tick
    \/ Step(1)
    \/ MirrorStep(1)
    \/ MirrorRequest(1, MaxMirrorCalls, ShortPayloads)

SpecMirror == InitMirror /\ [][MirrorNext]_vars

(***************************************************************************)
(* A client uploads one file: it creates a session sized for the file,     *)
(* sends every chunk once, in any order and over both threads, and asks    *)
(* for the assembly when every chunk request has been answered.  Nothing   *)
(* fails while the output is written.  The files of MaxChunks chunks, the  *)
(* longest ones, are sent one chunk at a time.                             *)
(***************************************************************************)
\* The file cut into chunks of chunk_size bytes: every chunk but the last is a
\* full one, longer than the compression threshold.
SourceFiles ==
    { f \in UNION { [1 .. n -> Payloads] : n \in 1 .. MaxChunks } :
          \A k \in 1 .. Len(f) - 1 : f[k].len > COMPRESS_MIN }
SourceSizes ==
    { BigOf((n - 1) * chunk_size + 1) : n \in 1 .. MaxChunks }
    \cup { BigOf(n * chunk_size) : n \in 1 .. MaxChunks }
SourceName == [stem |-> "a", ext |-> "txt"]

InitRoundTrip == InitServer /\ source \in SourceFiles /\ crypt = InitCrypt /\ redis = NoRedis

\* The chunk indices sent so far: stored, or in a request not yet answered.
Sent(ref) ==
    DOMAIN sessions[ref].uploaded_chunks
    \cup { frame[p].chunk_id : p \in { q \in Procs : frame[q].op = "chunk" } }

\* The client's requests in their order: the session, then the chunks not
\* sent yet, then the assembly once every thread is free again.
ClientCreate(p) ==
    \E n \in { m \in SourceSizes : TotalChunks(m) = Len(source) } :
        api_create_upload_session(p, 1, SourceName, n)
ClientChunk(p) ==
    \E i \in { j \in 0 .. Len(source) - 1 :
                 /\ sessions # <<>>
                 /\ j \notin Sent(1)
                 /\ Len(source) = MaxChunks => \A q \in Procs : pc[q] = "idle" } :
        api_upload_chunk(p, Len(source) + 1, sessions[1].session_id, i, source[i + 1])
ClientAssemble(p) ==
    \E id \in { x \in SessionIds : /\ calls = Len(source) + 1
                                  /\ \A q \in Procs : pc[q] = "idle"
                                  /\ x = sessions[1].session_id } :
        api_assemble_file(p, Len(source) + 2, id)

ClientRequest(p) ==
    \/ ClientCreate(p)
    \/ ClientChunk(p)
    \/ ClientAssemble(p)

ClientStep(p) ==
    \/ upload_chunk_build(p)
    \/ upload_chunk_store(p)
    \/ upload_chunk_return(p)
    \/ api_assemble_file_path(p)
    \/ assemble_file_check(p)
    \/ assemble_file_write(p, {"ok"})
    \/ assemble_file_completed(p)
    \/ assemble_file_clear(p)
    \/ api_assemble_file_finish(p)
    \/ Finish(p)

RoundTripNext ==
    \/ Tick
    \/ \E p \in Procs : ClientStep(p)
    \/ \E p \in Procs : ClientRequest(p)

SpecRoundTrip == InitRoundTrip /\ [][RoundTripNext]_vars

(***************************************************************************)
(* encrypt_file and decrypt_file (b_transfer_server.py).  Byte strings are *)
(* sequences of numbers 0 .. 255.  The primitives of the cryptography      *)
(* package are modelled by what the code relies on: PBKDF2 is a function   *)
(* of password and salt, AES a keyed permutation of the blocks, chained by *)
(* CBC (with addition modulo 256 in the place of XOR), HMAC a digest of    *)
(* 32 bytes that depends on the key and on every byte of the message.      *)
(***************************************************************************)
Fill(n, b) == [i \in 1 .. n |-> b]

\* Python's data[a:b] and data[a:] for 0 <= a.
Slice(data, a, b) == SubSeq(data, a + 1, IF b < Len(data) THEN b ELSE Len(data))
SliceFrom(data, a) == SubSeq(data, a + 1, Len(data))

RECURSIVE Sum(_)
Sum(data) ==
    IF Len(data) = 0 THEN 0
    ELSE IF Len(data) = 1 THEN data[1] % 256
    ELSE LET half == Len(data) \div 2
         IN (Sum(SubSeq(data, 1, half)) + Sum(SubSeq(data, half + 1, Len(data)))) % 256

\* password.encode(): the bytes of the password, kept as one number each.
encode(password) ==
    CASE password = "pass1234" -> 1
      [] password = "wrong" -> 2
      [] OTHER -> 0

\* A key that depends on the salt only.
derive_from_salt(password, salt) ==
    [i \in 1 .. 32 |-> (salt[((i - 1) % BLOCK) + 1] + i) % 256]
\* PBKDF2HMAC(SHA256, length=32, salt, iterations=100000).derive(password.encode())
derive_key(password, salt) ==
    [i \in 1 .. 32 |-> (encode(password) * 16 + salt[((i - 1) % BLOCK) + 1] + i) % 256]

\* One block through the cipher under the key, and back.
aes_encrypt(key, block) == [j \in 1 .. BLOCK |-> (block[j] + key[j]) % 256]
aes_decrypt(key, block) == [j \in 1 .. BLOCK |-> (block[j] + 256 - key[j]) % 256]

\* modes.CBC(iv): each block is combined with the previous ciphertext block
\* (first with the iv) before it is encrypted.
RECURSIVE cbc_encrypt(_, _, _)
cbc_encrypt(key, prev, data) ==
    IF data = <<>> THEN <<>>
    ELSE LET block == SubSeq(data, 1, BLOCK)
             out == aes_encrypt(key, [j \in 1 .. BLOCK |-> (block[j] + prev[j]) % 256])
         IN out \o cbc_encrypt(key, out, SliceFrom(data, BLOCK))

RECURSIVE cbc_decrypt(_, _, _)
cbc_decrypt(key, prev, data) ==
    IF data = <<>> THEN <<>>
    ELSE LET block == SubSeq(data, 1, BLOCK)
             out == aes_decrypt(key, block)
         IN [j \in 1 .. BLOCK |-> (out[j] + 256 - prev[j]) % 256]
            \o cbc_decrypt(key, block, SliceFrom(data, BLOCK))

\* A digest that ignores the message.
hmac_of_key(key, message) == [j \in 1 .. 32 |-> key[j]]
\* hmac.HMAC(key, hashes.SHA256()) over the message: 32 bytes.
hmac_sha256(key, message) == [j \in 1 .. 32 |-> (key[j] + Sum(message)) % 256]

\* Padding up to the next boundary only, none for a length that is on one.
padding_to_boundary(file_data) == (BLOCK - (Len(file_data) % BLOCK)) % BLOCK
\* padding_length = 16 - (len(file_data) % 16): 1 .. 16 bytes, each the length.
padding_length(file_data) == BLOCK - (Len(file_data) % BLOCK)
pad(file_data) == file_data \o Fill(padding_length(file_data), padding_length(file_data))

\* padded_data[:-padding_length] with padding_length = padded_data[-1]; in
\* Python data[:-0] is empty.
unpad(padded_data) ==
    LET n == padded_data[Len(padded_data)]
    IN IF n = 0 \/ n >= Len(padded_data) THEN <<>>
       ELSE SubSeq(padded_data, 1, Len(padded_data) - n)

\* An envelope without the tag: salt + iv + encrypted_data.
EnvelopeWithoutMac(file_data, password, salt, iv) ==
    LET key == derive_key(password, salt)
    IN salt \o iv \o cbc_encrypt(key, iv, pad(file_data))
\* salt + iv + mac + encrypted_data
Envelope(file_data, password, salt, iv) ==
    LET key == derive_key(password, salt)
        encrypted_data == cbc_encrypt(key, iv, pad(file_data))
    IN salt \o iv \o hmac_sha256(key, iv \o encrypted_data) \o encrypted_data

\* The inputs: the plaintexts around the block boundaries, the passwords, and
\* what os.urandom(16) returns for the salt and for the iv.
HelloWorld == <<104, 101, 108, 108, 111, 32, 119, 111, 114, 108, 100>>
Plaintexts ==
    { <<>>, HelloWorld }
    \cup { Fill(n, b) : n \in {1, BLOCK - 1, BLOCK, BLOCK + 1, BLOCK * MaxBlocks},
                        b \in {0, BLOCK} }
Passwords == { "pass1234", "wrong" }
Salts == { Fill(BLOCK, 1), Fill(BLOCK, 2) }
Ivs == { Fill(BLOCK, 3) }
Deltas == { 1, 128 }
Cuts == { 0, HEADER, MIN_ENVELOPE - 1 }

encrypt_file(file_data, password, salt, iv) ==
    /\ crypt.pc = "idle"
    /\ crypt' = [crypt EXCEPT !.pc = "locked",
                              !.file_data = file_data,
                              !.password = password,
                              !.envelope = Envelope(file_data, password, salt, iv)]
    /\ UNCHANGED <<server, source, redis>>

\* Someone changes one byte of the stored envelope, in the tag or in the
\* ciphertext, or cuts the envelope short.
alter_byte(i, d) ==
    /\ crypt.pc = "locked" /\ crypt.altered = "none"
    /\ i \in (2 * BLOCK + 1) .. Len(crypt.envelope)
    /\ crypt' = [crypt EXCEPT !.envelope[i] = (@ + d) % 256,
                              !.altered = IF i <= HEADER THEN "mac" ELSE "ciphertext"]
    /\ UNCHANGED <<server, source, redis>>

cut_short(n) ==
    /\ crypt.pc = "locked" /\ crypt.altered = "none"
    /\ n < Len(crypt.envelope)
    /\ crypt' = [crypt EXCEPT !.envelope = SubSeq(@, 1, n), !.altered = "cut"]
    /\ UNCHANGED <<server, source, redis>>

\* decrypt_file(encrypted_data, password): the minimum size check, then the
\* components and the key.
decrypt_file(password) ==
    /\ crypt.pc = "locked"
    /\ LET encrypted_data == crypt.envelope IN
       IF Len(encrypted_data) < MIN_ENVELOPE
          THEN crypt' = [crypt EXCEPT !.pc = "done",
                                      !.try_password = password,
                                      !.encrypted_data = encrypted_data,
                                      !.result = Err("Invalid encrypted data")]
          ELSE crypt' = [crypt EXCEPT !.pc = "df_verify",
                                      !.try_password = password,
                                      !.encrypted_data = encrypted_data,
                                      !.salt = Slice(encrypted_data, 0, 16),
                                      !.iv = Slice(encrypted_data, 16, 32),
                                      !.mac = Slice(encrypted_data, 32, 64),
                                      !.encrypted = SliceFrom(encrypted_data, 64),
                                      !.key = derive_key(password, Slice(encrypted_data, 0, 16))]
    /\ UNCHANGED <<server, source, redis>>

\* A verification that accepts every tag.
verify_nothing(key, message, mac) == TRUE
\* h.update(iv + encrypted); h.verify(mac): does the tag match?
hmac_verify(key, message, mac) == hmac_sha256(key, message) = mac

decrypt_file_verify ==
    /\ crypt.pc = "df_verify"
    /\ IF hmac_verify(crypt.key, crypt.iv \o crypt.encrypted, crypt.mac)
          THEN crypt' = [crypt EXCEPT !.pc = "df_decrypt"]
          ELSE crypt' = [crypt EXCEPT !.pc = "done",
                                      !.result = Err("Invalid password or corrupted data")]
    /\ UNCHANGED <<server, source, redis>>

\* decryptor.update(encrypted) + decryptor.finalize(): finalize raises for a
\* length that is not a multiple of the block length.
decrypt_file_decrypt ==
    /\ crypt.pc = "df_decrypt"
    /\ IF Len(crypt.encrypted) % BLOCK # 0
          THEN crypt' = [crypt EXCEPT !.pc = "done",
                                      !.result = Err("The length of the provided data is not a multiple of the block length.")]
          ELSE crypt' = [crypt EXCEPT !.pc = "df_unpad",
                                      !.padded_data = cbc_decrypt(crypt.key, crypt.iv, crypt.encrypted)]
    /\ UNCHANGED <<server, source, redis>>

decrypt_file_unpad ==
    /\ crypt.pc = "df_unpad"
    /\ crypt' = [crypt EXCEPT !.pc = "done",
                              !.result = Ok([data |-> unpad(crypt.padded_data)])]
    /\ UNCHANGED <<server, source, redis>>

CipherNext ==
    \/ \E file_data \in Plaintexts, password \in Passwords, salt \in Salts, iv \in Ivs :
          encrypt_file(file_data, password, salt, iv)
    \/ \E i \in 1 .. (HEADER + BLOCK * (MaxBlocks + 1)), d \in Deltas : alter_byte(i, d)
    \/ \E n \in Cuts : cut_short(n)
    \/ \E password \in Passwords : decrypt_file(password)
    \/ decrypt_file_verify
    \/ decrypt_file_decrypt
    \/ decrypt_file_unpad

SpecCipher == Init /\ [][CipherNext]_vars

\* Envelopes made outside encrypt_file by someone who has the password: the
\* tag is the right one for the ciphertext, the data under it ends as the
\* maker likes.
PaddedData ==
    { pad(HelloWorld), pad(Fill(BLOCK, 7)),
      Fill(BLOCK, 0), Fill(BLOCK, BLOCK + 1), Fill(BLOCK, 200),
      Fill(BLOCK - 1, 7) \o <<5>>, Fill(2 * BLOCK - 1, 7) \o <<BLOCK + 4>>,
      Fill(2 * BLOCK - 1, 7) \o <<2 * BLOCK>> }

forge_envelope(padded_data, password, salt, iv) ==
    /\ crypt.pc = "idle"
    /\ LET key == derive_key(password, salt)
           encrypted_data == cbc_encrypt(key, iv, padded_data)
       IN crypt' = [crypt EXCEPT !.pc = "locked",
                                 !.password = password,
                                 !.altered = "forged",
                                 !.envelope = salt \o iv \o hmac_sha256(key, iv \o encrypted_data)
                                                  \o encrypted_data]
    /\ UNCHANGED <<server, source, redis>>

PaddingNext ==
    \/ \E padded_data \in PaddedData, password \in Passwords, salt \in Salts, iv \in Ivs :
          forge_envelope(padded_data, password, salt, iv)
    \/ \E password \in Passwords : decrypt_file(password)
    \/ decrypt_file_verify
    \/ decrypt_file_decrypt
    \/ decrypt_file_unpad

SpecPadding == Init /\ [][PaddingNext]_vars

(***************************************************************************)
(* POST /lock/<filename>, POST /unlock/<filename> and GET                  *)
(* /download/<filename> (b_transfer_server.py) on one stored file.  The    *)
(* handlers take no lock: every access to the file or to its .meta file is *)
(* a step of its own.                                                      *)
(***************************************************************************)
StoredPath == <<[stem |-> "a", ext |-> "txt"], 0>>
Requesters == { "owner", "other" }
LockPasswords == Passwords \cup { "" }

\* hashlib.sha256(password.encode()).hexdigest()
sha256(password) == <<"sha256", password>>

StoredMeta == [ session_id |-> "owner", is_locked |-> FALSE, password_hash |-> "None" ]

InitLock ==
    /\ now = 0
    /\ sessions = <<>>
    /\ active_uploads = EmptyMap
    /\ upload_lock = NoProc
    /\ files = Put(EmptyMap, StoredPath, HelloWorld)
    /\ meta = Put(EmptyMap, StoredPath, StoredMeta)
    /\ pc = [p \in Procs |-> "idle"]
    /\ frame = [p \in Procs |-> InitFrame]
    /\ calls = 0
    /\ source = <<>>
    /\ crypt = InitCrypt
    /\ redis = NoRedis

\* A decrypt_file that does not look at the tag.
decrypt_unverified(encrypted_data, password) ==
    IF Len(encrypted_data) < MIN_ENVELOPE THEN Err("Invalid encrypted data")
    ELSE IF Len(encrypted_data) % BLOCK # 0
       THEN Err("The length of the provided data is not a multiple of the block length.")
    ELSE Ok([data |-> unpad(cbc_decrypt(derive_key(password, Slice(encrypted_data, 0, 16)),
                                        Slice(encrypted_data, 16, 32),
                                        SliceFrom(encrypted_data, 64)))])
\* decrypt_file as a function: the plaintext, or the ValueError it raises.
decrypt(encrypted_data, password) ==
    IF Len(encrypted_data) < MIN_ENVELOPE THEN Err("Invalid encrypted data")
    ELSE LET salt == Slice(encrypted_data, 0, 16)
             iv == Slice(encrypted_data, 16, 32)
             mac == Slice(encrypted_data, 32, 64)
             encrypted == SliceFrom(encrypted_data, 64)
             key == derive_key(password, salt)
         IN IF ~hmac_verify(key, iv \o encrypted, mac)
               THEN Err("Invalid password or corrupted data")
            ELSE IF Len(encrypted) % BLOCK # 0
               THEN Err("The length of the provided data is not a multiple of the block length.")
            ELSE Ok([data |-> unpad(cbc_decrypt(key, iv, encrypted))])

\* lock_file up to the ownership check, with the metadata it loads.
lock_file(p, limit, requester, password) ==
    /\ Free(p, limit)
    /\ calls' = calls + 1
    /\ LET f == [Call(p, "lock", <<>>) EXCEPT !.password = password,
                                              !.output_path = StoredPath] IN
       IF password = ""
          THEN /\ frame' = [frame EXCEPT ![p] =
                      [f EXCEPT !.result = Err("Password must be at least 4 characters")]]
               /\ pc' = [pc EXCEPT ![p] = "done"]
       ELSE IF StoredPath \notin DOMAIN files
          THEN /\ frame' = [frame EXCEPT ![p] = [f EXCEPT !.result = Err("File not found")]]
               /\ pc' = [pc EXCEPT ![p] = "done"]
       ELSE IF meta[StoredPath].session_id # requester
          THEN /\ frame' = [frame EXCEPT ![p] =
                      [f EXCEPT !.result = Err("You can only lock your own files")]]
               /\ pc' = [pc EXCEPT ![p] = "done"]
       ELSE /\ frame' = [frame EXCEPT ![p] = [f EXCEPT !.metadata = meta[StoredPath]]]
            /\ pc' = [pc EXCEPT ![p] = "lk_read"]
    /\ UNCHANGED <<now, sessions, active_uploads, upload_lock, files, meta, source, crypt, redis>>

\* file_data = f.read(); encrypted_data = encrypt_file(file_data, password)
lock_file_read(p, salt, iv) ==
    /\ pc[p] = "lk_read"
    /\ frame' = [frame EXCEPT ![p].file_data = files[StoredPath],
                              ![p].encrypted_data =
                                  Envelope(files[StoredPath], frame[p].password, salt, iv)]
    /\ pc' = [pc EXCEPT ![p] = "lk_open"]
    /\ UNCHANGED <<now, sessions, active_uploads, upload_lock, files, meta, calls, source, crypt, redis>>

\* open(filepath, 'wb') empties the file.
lock_file_open(p) ==
    /\ pc[p] = "lk_open"
    /\ files' = Put(files, StoredPath, <<>>)
    /\ pc' = [pc EXCEPT ![p] = "lk_write"]
    /\ UNCHANGED <<now, sessions, active_uploads, upload_lock, meta, frame, calls, source, crypt, redis>>

\* f.write(encrypted_data) and the end of the with block.
lock_file_write(p) ==
    /\ pc[p] = "lk_write"
    /\ files' = Put(files, StoredPath, frame[p].encrypted_data)
    /\ pc' = [pc EXCEPT ![p] = "lk_meta"]
    /\ UNCHANGED <<now, sessions, active_uploads, upload_lock, meta, frame, calls, source, crypt, redis>>

\* The metadata loaded at the start, with the two fields set, is saved.
lock_file_meta(p) ==
    /\ pc[p] = "lk_meta"
    /\ meta' = Put(meta, StoredPath,
            [frame[p].metadata EXCEPT !.is_locked = TRUE,
                                      !.password_hash = sha256(frame[p].password)])
    /\ frame' = [frame EXCEPT ![p].result = Ok([message |-> "File locked successfully"])]
    /\ pc' = [pc EXCEPT ![p] = "done"]
    /\ UNCHANGED <<now, sessions, active_uploads, upload_lock, files, calls, source, crypt, redis>>

\* unlock_file up to the password check against the stored digest.
unlock_file(p, limit, password) ==
    /\ Free(p, limit)
    /\ calls' = calls + 1
    /\ LET f == [Call(p, "unlock", <<>>) EXCEPT !.password = password,
                                                !.output_path = StoredPath] IN
       IF password = ""
          THEN /\ frame' = [frame EXCEPT ![p] = [f EXCEPT !.result = Err("Password required")]]
               /\ pc' = [pc EXCEPT ![p] = "done"]
       ELSE IF StoredPath \notin DOMAIN files
          THEN /\ frame' = [frame EXCEPT ![p] = [f EXCEPT !.result = Err("File not found")]]
               /\ pc' = [pc EXCEPT ![p] = "done"]
       ELSE IF ~meta[StoredPath].is_locked
          THEN /\ frame' = [frame EXCEPT ![p] = [f EXCEPT !.result = Err("File is not locked")]]
               /\ pc' = [pc EXCEPT ![p] = "done"]
       ELSE IF meta[StoredPath].password_hash # sha256(password)
          THEN /\ frame' = [frame EXCEPT ![p] = [f EXCEPT !.result = Err("Incorrect password")]]
               /\ pc' = [pc EXCEPT ![p] = "done"]
       ELSE /\ frame' = [frame EXCEPT ![p] = [f EXCEPT !.metadata = meta[StoredPath]]]
            /\ pc' = [pc EXCEPT ![p] = "ul_read"]
    /\ UNCHANGED <<now, sessions, active_uploads, upload_lock, files, meta, source, crypt, redis>>

\* encrypted_data = f.read(); decrypted_data = decrypt_file(...), whose
\* ValueError is answered with 401.
unlock_file_read(p) ==
    /\ pc[p] = "ul_read"
    /\ LET decrypted == decrypt(files[StoredPath], frame[p].password) IN
       IF decrypted.status = "error"
          THEN /\ frame' = [frame EXCEPT ![p].encrypted_data = files[StoredPath],
                                         ![p].result = Err("Incorrect password or corrupted file")]
               /\ pc' = [pc EXCEPT ![p] = "done"]
          ELSE /\ frame' = [frame EXCEPT ![p].encrypted_data = files[StoredPath],
                                         ![p].file_data = decrypted.data]
               /\ pc' = [pc EXCEPT ![p] = "ul_open"]
    /\ UNCHANGED <<now, sessions, active_uploads, upload_lock, files, meta, calls, source, crypt, redis>>

unlock_file_open(p) ==
    /\ pc[p] = "ul_open"
    /\ files' = Put(files, StoredPath, <<>>)
    /\ pc' = [pc EXCEPT ![p] = "ul_write"]
    /\ UNCHANGED <<now, sessions, active_uploads, upload_lock, meta, frame, calls, source, crypt, redis>>

unlock_file_write(p) ==
    /\ pc[p] = "ul_write"
    /\ files' = Put(files, StoredPath, frame[p].file_data)
    /\ pc' = [pc EXCEPT ![p] = "ul_meta"]
    /\ UNCHANGED <<now, sessions, active_uploads, upload_lock, meta, frame, calls, source, crypt, redis>>

unlock_file_meta(p) ==
    /\ pc[p] = "ul_meta"
    /\ meta' = Put(meta, StoredPath,
            [frame[p].metadata EXCEPT !.is_locked = FALSE, !.password_hash = "None"])
    /\ frame' = [frame EXCEPT ![p].result = Ok([message |-> "File unlocked successfully"])]
    /\ pc' = [pc EXCEPT ![p] = "done"]
    /\ UNCHANGED <<now, sessions, active_uploads, upload_lock, files, calls, source, crypt, redis>>

\* download_file: the metadata is loaded and a locked file refused.
download_file(p, limit) ==
    /\ Free(p, limit)
    /\ calls' = calls + 1
    /\ LET f == [Call(p, "download", <<>>) EXCEPT !.output_path = StoredPath,
                                                  !.metadata = meta[StoredPath]] IN
       IF meta[StoredPath].is_locked
          THEN /\ frame' = [frame EXCEPT ![p] =
                      [f EXCEPT !.result = Err("File is locked. Please unlock it first.")]]
               /\ pc' = [pc EXCEPT ![p] = "done"]
          ELSE /\ frame' = [frame EXCEPT ![p] = f]
               /\ pc' = [pc EXCEPT ![p] = "dl_send"]
    /\ UNCHANGED <<now, sessions, active_uploads, upload_lock, files, meta, source, crypt, redis>>

\* send_file(filepath): the bytes that are in the file then.
download_file_send(p) ==
    /\ pc[p] = "dl_send"
    /\ frame' = [frame EXCEPT ![p].file_data = files[StoredPath],
                              ![p].result = Ok([message |-> "sent"])]
    /\ pc' = [pc EXCEPT ![p] = "done"]
    /\ UNCHANGED <<now, sessions, active_uploads, upload_lock, files, meta, calls, source, crypt, redis>>

LockStep(p) ==
    \/ \E salt \in Salts, iv \in Ivs : lock_file_read(p, salt, iv)
    \/ lock_file_open(p)
    \/ lock_file_write(p)
    \/ lock_file_meta(p)
    \/ unlock_file_read(p)
    \/ unlock_file_open(p)
    \/ unlock_file_write(p)
    \/ unlock_file_meta(p)
    \/ download_file_send(p)
    \/ Finish(p)

LockRequest(p, limit) ==
    \/ \E requester \in Requesters, password \in LockPasswords :
          lock_file(p, limit, requester, password)
    \/ \E password \in LockPasswords : unlock_file(p, limit, password)
    \/ download_file(p, limit)

LockNext ==
    \/ \E p \in Procs : LockStep(p)
    \/ \E p \in Procs : LockRequest(p, MaxLockCalls)

SpecLock == InitLock /\ [][LockNext]_vars

\* One request at a time, on a disk where a byte of the stored file, in the
\* tag or in the ciphertext, may flip its high bit between two requests.
Corruptible == { 2 * BLOCK + 1, HEADER + 1 }

corrupt_file(i) ==
    /\ \A p \in Procs : pc[p] = "idle"
    /\ i <= Len(files[StoredPath])
    /\ files' = Put(files, StoredPath, [files[StoredPath] EXCEPT ![i] = (@ + 128) % 256])
    /\ UNCHANGED <<now, sessions, active_uploads, upload_lock, meta, pc, frame, calls, source, crypt, redis>>

LockSerialNext ==
    \/ LockStep(1)
    \/ LockRequest(1, MaxLockSerialCalls)
    \/ \E i \in Corruptible : corrupt_file(i)

SpecLockSerial == InitLock /\ [][LockSerialNext]_vars

(***************************************************************************)
(* POST /upload: a whole file in one request, stored under the first name  *)
(* of name, name_1, name_2, ... that does not exist.  Files above the      *)
(* cloud threshold and the handler's exception path are left out.          *)
(***************************************************************************)
\* The checks, secure_filename and the loop over os.path.exists.
upload_file(p, limit, filename, data) ==
    /\ Free(p, limit)
    /\ calls' = calls + 1
    /\ IF allowed_file(filename)
          THEN /\ frame' = [frame EXCEPT ![p] =
                      [Call(p, "upload", <<>>) EXCEPT
                          !.output_path = FreePath(DOMAIN files, secure_filename(filename), 0),
                          !.file_data = <<Raw(data)>>,
                          !.metadata = [original_name |-> filename]]]
               /\ pc' = [pc EXCEPT ![p] = "uf_save"]
          ELSE /\ frame' = [frame EXCEPT ![p] =
                      [Call(p, "upload", <<>>) EXCEPT !.result = Err("File type not allowed")]]
               /\ pc' = [pc EXCEPT ![p] = "done"]
    /\ UNCHANGED <<now, sessions, active_uploads, upload_lock, files, meta, source, crypt, redis>>

\* file.save(filepath) creates the file or replaces the one that is there.
upload_file_save(p) ==
    /\ pc[p] = "uf_save"
    /\ files' = Put(files, frame[p].output_path, frame[p].file_data)
    /\ pc' = [pc EXCEPT ![p] = "uf_meta"]
    /\ UNCHANGED <<now, sessions, active_uploads, upload_lock, meta, frame, calls, source, crypt, redis>>

\* save_file_metadata(filename, metadata) and the answer.
upload_file_meta(p) ==
    /\ pc[p] = "uf_meta"
    /\ meta' = Put(meta, frame[p].output_path,
            [ original_name |-> frame[p].metadata.original_name,
              size |-> BigOf(len(frame[p].file_data[1])),
              session_id |-> "owner",
              is_locked |-> FALSE ])
    /\ frame' = [frame EXCEPT ![p].result = Ok([filename |-> frame[p].output_path])]
    /\ pc' = [pc EXCEPT ![p] = "done"]
    /\ UNCHANGED <<now, sessions, active_uploads, upload_lock, files, calls, source, crypt, redis>>

StoreStep(p) ==
    \/ upload_chunk_build(p)
    \/ upload_chunk_store(p)
    \/ upload_chunk_return(p)
    \/ api_assemble_file_path(p)
    \/ assemble_file_check(p)
    \/ assemble_file_write(p, OutcomeKinds)
    \/ assemble_file_completed(p)
    \/ assemble_file_clear(p)
    \/ assemble_file_failed(p)
    \/ api_assemble_file_finish(p)
    \/ upload_file_save(p)
    \/ upload_file_meta(p)
    \/ Finish(p)

\* Plain uploads and chunked uploads side by side on two threads.
StoreNext ==
    \/ \E p \in Procs : StoreStep(p)
    \/ \E p \in Procs, f \in Filenames, d \in ShortPayloads : upload_file(p, MaxStoreCalls, f, d)
    \/ \E p \in Procs, f \in Filenames : api_create_upload_session(p, MaxStoreCalls, f, BigOf(1))
    \/ \E p \in Procs, id \in SessionIds, d \in ShortPayloads : api_upload_chunk(p, MaxStoreCalls, id, 0, d)
    \/ \E p \in Procs, id \in SessionIds : api_assemble_file(p, MaxStoreCalls, id)

SpecStore == Init /\ [][StoreNext]_vars

(***************************************************************************)
(* The claims.                                                             *)
(***************************************************************************)
Assembling(p) == frame[p].op = "assemble"
Written1(p) == pc[p] \in {"af_completed", "af_clear", "ha_finish"}

\* C1: when every chunk index of a session of valid size has been submitted
\* exactly once, in any order, and Assemble is then called, Assemble succeeds
\* and the output file is the original payloads in increasing index order.
C1_RoundTrip ==
    \A p \in Procs :
        Assembling(p) /\ (Written1(p) \/ pc[p] = "done") =>
            /\ frame[p].result.status = "success"
            /\ frame[p].output_path \in DOMAIN files
            /\ files[frame[p].output_path] = [k \in 1 .. Len(source) |-> Raw(source[k])]

\* C1 happens: three chunks, the last index stored before the first one, a
\* compressed chunk among them, and the output written.
C1_Witness ==
    \E p \in Procs :
        /\ Assembling(p) /\ pc[p] = "af_completed"
        /\ Len(source) = 3
        /\ LET chunks == sessions[frame[p].session].uploaded_chunks IN
              /\ DOMAIN chunks = {0, 1, 2}
              /\ chunks[2].upload_time < chunks[0].upload_time
              /\ chunks[1].compressed
        /\ Len(files[frame[p].output_path]) = 3

\* The step of thread p that is an upload_chunk call, with its check.
ChunkCall(p) == pc[p] = "idle" /\ pc'[p] # "idle" /\ frame'[p].op = "chunk"
Target(p) == sessions[active_uploads[frame'[p].session_id]]

\* C2: a PutChunk for a (session, index) that already holds a chunk fails with
\* Duplicate, and nothing stored changes.
C2_DuplicateRejected ==
    [][\A p \in Procs :
          ( /\ ChunkCall(p)
            /\ frame'[p].session_id \in DOMAIN active_uploads
            /\ frame'[p].chunk_id \in DOMAIN Target(p).uploaded_chunks )
          => /\ frame'[p].result = Err("Chunk already uploaded")
             /\ pc'[p] = "done"
             /\ sessions' = sessions
             /\ active_uploads' = active_uploads]_vars

\* C2 happens: a duplicate was rejected whose payload differs from the one
\* stored under its index.
C2_Witness ==
    \E p \in Procs :
        /\ pc[p] = "done" /\ frame[p].op = "chunk"
        /\ frame[p].result.error = "Chunk already uploaded"
        /\ frame[p].chunk_id \in DOMAIN sessions[frame[p].session].uploaded_chunks
        /\ sessions[frame[p].session].uploaded_chunks[frame[p].chunk_id].checksum
               # md5(frame[p].chunk_data)

\* C3: of the PutChunk calls that run together for one session and one index
\* at most one is accepted, and a stored chunk is never replaced.
C3_NoOverwrite ==
    [][\A r \in 1 .. Len(sessions) :
          \A i \in DOMAIN sessions[r].uploaded_chunks :
              i \in DOMAIN sessions'[r].uploaded_chunks =>
                  sessions'[r].uploaded_chunks[i] = sessions[r].uploaded_chunks[i]]_vars

\* C4: a PutChunk with an index outside [0, total_chunks), too large or
\* negative, fails with InvalidIndex and stores nothing.
C4_InvalidIndexRejected ==
    [][\A p \in Procs :
          ( /\ ChunkCall(p)
            /\ frame'[p].session_id \in DOMAIN active_uploads
            /\ frame'[p].chunk_id \notin 0 .. (Target(p).total_chunks - 1) )
          => /\ frame'[p].result = Err("Invalid chunk ID")
             /\ pc'[p] = "done"
             /\ sessions' = sessions]_vars

\* The step of thread p that is the completeness check of assemble_file.
AssembleCheck(p) == pc[p] = "af_check" /\ pc'[p] # "af_check"

\* C5: Assemble on a session whose number of stored chunks differs from
\* total_chunks fails with Incomplete and changes neither the output files
\* nor the session's status and chunks.
C5_IncompleteRejected ==
    [][\A p \in Procs :
          ( /\ AssembleCheck(p)
            /\ frame[p].session_id \in DOMAIN active_uploads
            /\ Cardinality(DOMAIN sessions[active_uploads[frame[p].session_id]].uploaded_chunks)
                   # sessions[active_uploads[frame[p].session_id]].total_chunks )
          => /\ frame'[p].result = Err("Not all chunks uploaded")
             /\ pc'[p] = "done"
             /\ files' = files
             /\ meta' = meta
             /\ sessions' = sessions
             /\ active_uploads' = active_uploads]_vars

\* C5 happens: an assembly was refused for a session that holds some of its
\* chunks, not all.
C5_Witness ==
    \E p \in Procs :
        /\ pc[p] = "done" /\ Assembling(p)
        /\ frame[p].result.error = "Not all chunks uploaded"
        /\ Cardinality(DOMAIN sessions[frame[p].session].uploaded_chunks) = 1
        /\ sessions[frame[p].session].total_chunks = 2
        /\ sessions[frame[p].session].status = "uploading"
        /\ files = EmptyMap

\* C6: once a session's status is not 'uploading', no chunk is added to its
\* chunk map and none in it is changed.
C6_NoWriteAfterUploading ==
    [][\A r \in 1 .. Len(sessions) :
          sessions[r].status # "uploading" =>
              \A i \in DOMAIN sessions'[r].uploaded_chunks :
                  /\ i \in DOMAIN sessions[r].uploaded_chunks
                  /\ sessions'[r].uploaded_chunks[i] = sessions[r].uploaded_chunks[i]]_vars

\* C7: a session's status changes only along uploading -> assembling,
\* assembling -> completed, uploading -> failed, assembling -> failed; a
\* completed or failed session keeps its status.
C7_StatusEdges ==
    [][\A r \in 1 .. Len(sessions) :
          sessions'[r].status # sessions[r].status =>
              <<sessions[r].status, sessions'[r].status>> \in
                  { <<"uploading", "assembling">>, <<"assembling", "completed">>,
                    <<"uploading", "failed">>, <<"assembling", "failed">> }]_vars

\* C8: when an I/O error or a decompression error occurs after the
\* completeness check, Assemble returns an error and leaves the session
\* 'failed'.
C8_FaultMarksFailed ==
    [][\A p \in Procs :
          ( /\ Assembling(p)
            /\ pc[p] \in {"af_write", "af_failed"}
            /\ pc'[p] = "done"
            /\ frame'[p].fault # "none" )
          => /\ frame'[p].result.status = "error"
             /\ sessions'[frame[p].session].status = "failed"]_vars

\* The step of thread p that is a whole create_upload_session request.
CreateCall(p) == pc[p] = "idle" /\ pc'[p] # "idle" /\ frame'[p].op = "create"

\* C9: CreateSession never returns the id of a session in the registry and
\* never replaces the entry of a live session.
C9_FreshSessionId ==
    [][\A p \in Procs :
          CreateCall(p) /\ frame'[p].result.status = "success" =>
              /\ frame'[p].session_id \notin DOMAIN active_uploads
              /\ \A id \in DOMAIN active_uploads :
                    id \in DOMAIN active_uploads' /\ active_uploads'[id] = active_uploads[id]]_vars

\* C10: CreateSession with total_size <= 0 or above the configured maximum is
\* rejected with an error and adds no session.
C10_SizeValidated ==
    [][\A p \in Procs :
          ( /\ CreateCall(p)
            /\ \/ BigLE(frame'[p].total_size, Zero)
               \/ BigGT(frame'[p].total_size, MAX_FILE_SIZE_PER_UPLOAD) )
          => /\ frame'[p].result.status = "error"
             /\ active_uploads' = active_uploads]_vars

\* The step of thread p that is a cleanup_expired_sessions call up to the
\* point where it returns or waits.
ExpiryCall(p) == pc[p] = "idle" /\ pc'[p] # "idle" /\ frame'[p].op = "expire"

\* C11: the expiry scan always returns to its caller: a thread inside
\* cleanup_expired_sessions never waits for the lock it holds itself.
C11_ExpiryReturns ==
    \A p \in Procs :
        ~(frame[p].op = "expire" /\ pc[p] = "ex_cleanup" /\ upload_lock = p)

\* C12: an expiry scan removes from the registry every session whose last
\* activity is older than max_age and leaves every other session as it was.
C12_ExpiredRemoved ==
    [][\A p \in Procs :
          ExpiryCall(p) =>
              /\ \A id \in ExpiredSessions(now, frame'[p].max_age) :
                    id \notin DOMAIN active_uploads'
              /\ \A id \in DOMAIN active_uploads \ ExpiredSessions(now, frame'[p].max_age) :
                    /\ id \in DOMAIN active_uploads'
                    /\ active_uploads'[id] = active_uploads[id]
                    /\ sessions'[active_uploads[id]] = sessions[active_uploads[id]]]_vars

\* C13: an upload_chunk call that is about to store its chunk never waits for
\* the lock while it is held for the sake of other sessions only.
C13_NoCrossSessionWait ==
    \A p \in Procs, q \in Procs :
        ( /\ p # q
          /\ frame[p].op = "chunk" /\ pc[p] = "uc_store"
          /\ upload_lock = q )
        => frame[p].session_id \in frame[q].expired_sessions

\* The step of thread p that is a whole cleanup_session call.
CleanupCall(p) == pc[p] = "idle" /\ pc'[p] # "idle" /\ frame'[p].op = "cleanup"

\* C14: cleanup_session never fails; for an id that is not in the registry it
\* changes nothing, and for a live session it removes that entry and leaves
\* every other session untouched, so that a second call changes nothing more.
C14_CleanupIdempotent ==
    [][\A p \in Procs :
          CleanupCall(p) =>
              /\ pc'[p] = "done"
              /\ frame'[p].result.status = "success"
              /\ DOMAIN active_uploads' = DOMAIN active_uploads \ {frame'[p].session_id}
              /\ \A id \in DOMAIN active_uploads' :
                    /\ active_uploads'[id] = active_uploads[id]
                    /\ sessions'[active_uploads[id]] = sessions[active_uploads[id]]
              /\ frame'[p].session_id \notin DOMAIN active_uploads =>
                    sessions' = sessions /\ active_uploads' = active_uploads]_vars

\* C14 happens: a second cleanup of a session that the first one removed.
C14_Witness ==
    \E p \in Procs :
        /\ pc[p] = "done" /\ frame[p].op = "cleanup"
        /\ frame[p].session = 0
        /\ calls = 3
        /\ active_uploads = EmptyMap
        /\ Len(sessions) = 1
        /\ sessions[1].session_id = frame[p].session_id

\* A get_upload_progress call of thread p that has been answered.
ProgressDone(p) == pc[p] = "done" /\ frame[p].op = "progress"

\* C15: get_upload_progress answers NotFound for an id that is not in the
\* registry and a report, never an exception, for one that is.
C15_ProgressNeverRaises ==
    \A p \in Procs :
        ProgressDone(p) =>
            IF frame[p].session = 0
               THEN frame[p].result = Err("Upload session not found")
               ELSE frame[p].result.status = "success"

\* C16: the chunk count, the percentage and the byte count of a progress
\* report all describe one state of the session's chunk map.
C16_ConsistentSnapshot ==
    \A p \in Procs :
        ProgressDone(p) /\ frame[p].result.status = "success" =>
            /\ frame[p].result.progress_percent =
                   <<frame[p].result.uploaded_chunks * 100, frame[p].result.total_chunks>>
            /\ frame[p].result.uploaded_chunks = 0 <=> frame[p].result.uploaded_size = 0

\* A decrypt_file call that has returned or raised.
Unlocked == crypt.pc = "done"

\* C17: decrypt_file(encrypt_file(P, W), W) returns exactly P, for the empty
\* plaintext and for lengths that are multiples of the block size as well.
C17_LockUnlock ==
    Unlocked /\ crypt.altered = "none" /\ crypt.try_password = crypt.password =>
        crypt.result = Ok([data |-> crypt.file_data])

\* C17 happens: a plaintext of whole blocks that ends in bytes equal to a
\* padding has come back.
C17_Witness ==
    /\ Unlocked /\ crypt.altered = "none" /\ crypt.try_password = crypt.password
    /\ Len(crypt.file_data) = BLOCK
    /\ crypt.file_data[BLOCK] = BLOCK
    /\ crypt.result.status = "success"
    /\ Len(crypt.encrypted_data) = HEADER + 2 * BLOCK

\* C18: decrypt_file(encrypt_file(P, W), W2) with W2 # W raises the
\* authentication failure and returns no bytes.
C18_WrongPassword ==
    Unlocked /\ crypt.altered = "none" /\ crypt.try_password # crypt.password =>
        crypt.result = Err("Invalid password or corrupted data")

\* C18 happens: "hello world" locked with one password and refused with the
\* other.
C18_Witness ==
    /\ Unlocked /\ crypt.altered = "none"
    /\ crypt.file_data = HelloWorld
    /\ crypt.password = "pass1234" /\ crypt.try_password = "wrong"
    /\ crypt.result.status = "error"

\* C19: an envelope with one byte of its tag or of its ciphertext changed is
\* never decrypted: decrypt_file raises the authentication failure.
C19_AlteredRejected ==
    Unlocked /\ crypt.altered \in {"mac", "ciphertext"} =>
        crypt.result = Err("Invalid password or corrupted data")

\* C19 happens: the last ciphertext byte was changed and the right password
\* was refused.
C19_Witness ==
    /\ Unlocked /\ crypt.altered = "ciphertext"
    /\ crypt.try_password = crypt.password
    /\ crypt.encrypted_data[Len(crypt.encrypted_data)]
           # Envelope(crypt.file_data, crypt.password, crypt.salt, crypt.iv)[Len(crypt.encrypted_data)]
    /\ crypt.result.status = "error"

\* C20: decrypt_file runs the cipher and strips the padding only after the
\* tag over iv + ciphertext was found equal to the stored tag; after a
\* mismatch it raises and decrypts nothing.
C20_VerifyThenDecrypt ==
    [][ /\ crypt'.pc \in {"df_decrypt", "df_unpad"} \/ crypt'.padded_data # crypt.padded_data
            => hmac_sha256(crypt'.key, crypt'.iv \o crypt'.encrypted) = crypt'.mac
        /\ ( /\ crypt.pc = "df_verify"
             /\ hmac_sha256(crypt.key, crypt.iv \o crypt.encrypted) # crypt.mac )
            => crypt'.pc = "done" /\ crypt'.result.status = "error" /\ crypt'.padded_data = <<>>
      ]_vars

\* C20 happens: three blocks were decrypted after their tag matched.
C20_Witness ==
    /\ crypt.pc = "df_unpad"
    /\ Len(crypt.padded_data) = 3 * BLOCK
    /\ crypt.mac = hmac_sha256(crypt.key, crypt.iv \o crypt.encrypted)

\* Are the bytes an envelope made with one of the passwords?
IsEnvelope(data) == \E password \in Passwords : decrypt(data, password).status = "success"

\* C21: in every state the stored file is an envelope exactly when its
\* metadata says is_locked, and the plaintext exactly when it says not.
C21_LockAtomic ==
    \A path \in DOMAIN files \cap DOMAIN meta :
        IF meta[path].is_locked
           THEN IsEnvelope(files[path])
           ELSE files[path] = HelloWorld

\* The step that follows each mirror block when there is no Redis client.
AfterMirror(label) ==
    CASE label = "cs_redis" -> "done"
      [] label = "uc_redis" -> "uc_ret"
      [] label = "af_redis" -> "ha_finish"
      [] label = "cl_redis" -> "done"
      [] OTHER -> label

\* C22: a block of calls to the mirror, whether its calls work or raise,
\* changes neither the registry, the files nor what the request returns, and
\* the request goes on where it goes on without a mirror.
C22_MirrorTransparent ==
    [][\A p \in Procs :
          (pc[p] \in { "cs_redis", "uc_redis", "af_redis", "cl_redis" } /\ pc'[p] # pc[p])
              => /\ UNCHANGED <<sessions, active_uploads, upload_lock, files, meta, frame>>
                 /\ pc'[p] = AfterMirror(pc[p])]_vars

\* An assembly whose first mirror call raised has succeeded, in a session
\* whose chunk uploads were not mirrored either.
C22_Witness ==
    /\ redis.client = "Redis"
    /\ pc[1] = "done"
    /\ frame[1].op = "assemble"
    /\ frame[1].result.status = "success"
    /\ <<"upload_completed", frame[1].session_id>> \notin DOMAIN redis.data
    /\ <<"upload_progress", frame[1].session_id>> \notin DOMAIN redis.data

\* The chunk indices a session of total_chunks chunks is made of.
Indices(session) == 0 .. session.total_chunks - 1

\* C23: the chunk indices stored for a session are among
\* 0 .. total_chunks - 1, and a session that passed the completeness check
\* of assemble_file holds exactly these.
C23_IndicesInRange ==
    /\ \A i \in 1 .. Len(sessions) :
          DOMAIN sessions[i].uploaded_chunks \subseteq Indices(sessions[i])
    /\ \A p \in Procs :
          pc[p] = "af_write"
              => DOMAIN sessions[frame[p].session].uploaded_chunks
                     = Indices(sessions[frame[p].session])

\* Is the session object in the registry?
Registered(i) == \E id \in DOMAIN active_uploads : active_uploads[id] = i
\* len(session.uploaded_chunks)
UploadedCount(session) == Cardinality(DOMAIN session.uploaded_chunks)

\* C24: while a session stays in the registry its number of uploaded chunks
\* never goes down, and the store of an accepted chunk raises it by one.
C24_CountMonotone ==
    [][\A i \in 1 .. Len(sessions) :
          (Registered(i) /\ Registered(i)')
              => /\ UploadedCount(sessions'[i]) >= UploadedCount(sessions[i])
                 /\ \A p \in Procs :
                       (pc[p] = "uc_store" /\ pc'[p] # "uc_store" /\ frame[p].session = i)
                           => UploadedCount(sessions'[i]) = UploadedCount(sessions[i]) + 1]_vars

\* C25: at the step with which assemble_file returns its success result the
\* session is 'completed' and holds no chunk.
C25_CompletedAndEmpty ==
    [][\A p \in Procs :
          (pc[p] = "af_clear" /\ pc'[p] # "af_clear")
              => /\ sessions'[frame[p].session].status = "completed"
                 /\ sessions'[frame[p].session].uploaded_chunks = EmptyMap]_vars

\* The three answers of upload_chunk's first locked block.
Rejections == { "Upload session not found", "Invalid chunk ID", "Chunk already uploaded" }

\* C26: an upload_chunk call for an unknown session, for an index that is not
\* below total_chunks or for an index that holds a chunk ends at once with
\* one of the three rejections, and registry, sessions and files are as
\* before the call.
C26_RejectedUnchanged ==
    [][\A p \in Procs :
          ( /\ ChunkCall(p)
            /\ \/ frame'[p].session_id \notin DOMAIN active_uploads
               \/ frame'[p].chunk_id >= Target(p).total_chunks
               \/ frame'[p].chunk_id \in DOMAIN Target(p).uploaded_chunks )
          => /\ frame'[p].result.error \in Rejections
             /\ pc'[p] = "done"
             /\ UNCHANGED <<sessions, active_uploads, files, meta>>]_vars

\* C26 happens: an index that is not below total_chunks was rejected for a
\* session that holds a chunk.
C26_Witness ==
    \E p \in Procs :
        /\ pc[p] = "done" /\ frame[p].op = "chunk"
        /\ frame[p].result.error = "Invalid chunk ID"
        /\ frame[p].session # 0
        /\ sessions[frame[p].session].uploaded_chunks # EmptyMap

\* The store of the chunk of thread p's upload_chunk call.
StoreOf(p) == pc[p] = "uc_store" /\ pc'[p] # "uc_store"

\* C27: the store of an accepted chunk sets the session's last_activity to
\* the time of the store; after every step last_activity is not before the
\* session's start_time nor before the upload_time of a chunk it holds; and
\* no step moves it back.
C27_LastActivity ==
    [][/\ \A p \in Procs :
             StoreOf(p) => sessions'[frame[p].session].last_activity = now
       /\ \A i \in 1 .. Len(sessions') :
             /\ sessions'[i].last_activity >= sessions'[i].start_time
             /\ \A c \in DOMAIN sessions'[i].uploaded_chunks :
                   sessions'[i].last_activity >= sessions'[i].uploaded_chunks[c].upload_time
       /\ \A i \in 1 .. Len(sessions) :
             sessions'[i].last_activity >= sessions[i].last_activity]_vars

\* C27 happens: two upload_chunk calls for one session ran together, and a
\* chunk that arrived before the clock moved on is stored after it did.
C27_Witness ==
    /\ pc[1] = "uc_ret" /\ pc[2] = "uc_ret"
    /\ frame[1].session = frame[2].session
    /\ frame[1].chunk_id # frame[2].chunk_id
    /\ LET session == sessions[frame[1].session] IN
       /\ { frame[1].chunk_id, frame[2].chunk_id } \subseteq DOMAIN session.uploaded_chunks
       /\ frame[1].chunk.upload_time < session.last_activity
       /\ session.last_activity > session.start_time

\* Does the data end in n bytes of value n, for an n of 1 .. 16?
WellPadded(padded_data) ==
    LET n == padded_data[Len(padded_data)]
    IN /\ n \in 1 .. BLOCK
       /\ n <= Len(padded_data)
       /\ \A j \in (Len(padded_data) - n + 1) .. Len(padded_data) : padded_data[j] = n

\* C28: decrypt_file returns data only if the decrypted bytes are well
\* padded; an envelope whose tag verifies over malformed padding is refused.
C28_PaddingChecked ==
    (crypt.pc = "done" /\ crypt.result.status = "success") => WellPadded(crypt.padded_data)

\* C29: encrypt_file pads n bytes with 16 - (n mod 16) bytes, a number of
\* 1 .. 16, the ciphertext has (n div 16 + 1) * 16 bytes and the envelope 64
\* more, at least 80; decrypt_file refuses an input of fewer than 80 bytes
\* before it derives a key or verifies a tag.
C29_Lengths ==
    [][/\ (crypt.pc = "idle" /\ crypt'.pc = "locked")
             => LET n == Len(crypt'.file_data) IN
                /\ padding_length(crypt'.file_data) = BLOCK - (n % BLOCK)
                /\ padding_length(crypt'.file_data) \in 1 .. BLOCK
                /\ Len(pad(crypt'.file_data)) = (n \div BLOCK + 1) * BLOCK
                /\ Len(crypt'.envelope) = HEADER + (n \div BLOCK + 1) * BLOCK
                /\ Len(crypt'.envelope) >= MIN_ENVELOPE
       /\ (crypt.pc = "locked" /\ crypt'.pc # "locked" /\ Len(crypt.envelope) < MIN_ENVELOPE)
             => /\ crypt'.pc = "done"
                /\ crypt'.result = Err("Invalid encrypted data")
                /\ crypt'.key = <<>> /\ crypt'.mac = <<>>]_vars

\* C29 happens: a plaintext of a whole number of blocks got a block of
\* padding, and its envelope cut to 79 bytes was refused.
C29_Witness ==
    /\ crypt.pc = "done"
    /\ Len(crypt.file_data) = BLOCK * MaxBlocks
    /\ Len(crypt.encrypted_data) = MIN_ENVELOPE - 1
    /\ crypt.result = Err("Invalid encrypted data")

\* k chunks of chunk_size bytes, as a byte count.
ChunkBytes(k) ==
    Big(k \div (Limb \div chunk_size), (k % (Limb \div chunk_size)) * chunk_size)
\* Is k the least number of chunks that hold total_size bytes?
IsCeiling(k, total_size) ==
    /\ BigLE(total_size, ChunkBytes(k))
    /\ k > 0 => BigGT(total_size, ChunkBytes(k - 1))

\* C30: the total_chunks of a session that create_upload_session registers
\* is the least number of chunks of chunk_size bytes that hold total_size
\* bytes, the response of the request reports the same number, and no step
\* changes the total_chunks of a session.
C30_TotalChunks ==
    [][/\ \A p \in Procs :
             (CreateCall(p) /\ frame'[p].result.status = "success")
                 => /\ IsCeiling(sessions'[frame'[p].session].total_chunks,
                                 frame'[p].total_size)
                    /\ sessions'[frame'[p].session].total_size = frame'[p].total_size
                    /\ frame'[p].result.total_chunks
                           = sessions'[frame'[p].session].total_chunks
       /\ \A i \in 1 .. Len(sessions) :
             sessions'[i].total_chunks = sessions[i].total_chunks]_vars

\* C30 happens: a session of one byte more than a chunk has two chunks, still
\* so after a chunk was stored in it.
C30_Witness ==
    \E i \in 1 .. Len(sessions) :
        /\ sessions[i].total_size = BigOf(chunk_size + 1)
        /\ sessions[i].total_chunks = 2
        /\ sessions[i].uploaded_chunks # EmptyMap

\* The chunks a session holds.
StoredChunks ==
    UNION { { sessions[i].uploaded_chunks[c] : c \in DOMAIN sessions[i].uploaded_chunks } :
               i \in 1 .. Len(sessions) }

\* C31: a stored chunk is gzip's output with the compressed flag set when
\* compression is on, the payload has more than 1024 bytes and gzip's output
\* has fewer bytes than the payload; else it is the payload with the flag
\* clear.  Its size is the length of what is stored, never above the
\* payload's.
C31_StoredForm ==
    \A chunk \in StoredChunks :
        LET payload == chunk.data.src
            shrinks == /\ enable_compression
                       /\ payload.len > COMPRESS_MIN
                       /\ payload.zlen < payload.len
        IN /\ chunk.compressed = shrinks
           /\ IsGzip(chunk.data) = shrinks
           /\ chunk.size = (IF shrinks THEN payload.zlen ELSE payload.len)
           /\ chunk.size <= payload.len

\* C31 happens: a session holds a chunk stored compressed and a chunk of more
\* than 1024 bytes stored as sent, because gzip made it longer.
C31_Witness ==
    \E a, b \in StoredChunks :
        /\ a.compressed /\ a.size < a.data.src.len
        /\ ~b.compressed /\ b.data.src.len > COMPRESS_MIN /\ b.data.src.zlen > b.data.src.len

\* The size of the output of thread p's assemble_file differs from the
\* session's total_size.
SizeMismatch(p) ==
    BigOf(FileSize(files[frame[p].output_path])) # sessions[frame[p].session].total_size

\* C32: an assemble_file that wrote every chunk without error into a file
\* whose size is not the session's total_size goes on to 'completed' and
\* returns success with the size of the file.
C32_MismatchSucceeds ==
    [][\A p \in Procs :
          (pc[p] = "af_completed" /\ pc'[p] # "af_completed" /\ SizeMismatch(p))
              => /\ sessions'[frame[p].session].status = "completed"
                 /\ pc'[p] = "af_clear"
                 /\ frame'[p].result.status = "success"
                 /\ frame'[p].result.final_size = FileSize(files[frame[p].output_path])]_vars

\* C32 happens: an assembly of 512 bytes for a session declared with 1 byte
\* has returned success, and the session is 'completed'.
C32_Witness ==
    \E p \in Procs :
        /\ Assembling(p) /\ pc[p] = "done"
        /\ frame[p].result.status = "success"
        /\ frame[p].result.final_size > 1
        /\ sessions[frame[p].session].total_size = BigOf(1)
        /\ sessions[frame[p].session].status = "completed"

\* C33: a progress report with a speed of 0 gives an eta that is no number of
\* seconds, in particular not 0 seconds; with a speed above 0 its eta is the
\* remaining bytes over the speed.
C33_EtaIndeterminate ==
    \A p \in Procs :
        (ProgressDone(p) /\ frame[p].result.status = "success") =>
            LET report == frame[p].result
                remaining_bytes == BigMinus(report.total_size, report.uploaded_size)
            IN IF report.speed_bps[1] = 0
                  THEN report.eta_seconds # ZeroSeconds
                  ELSE report.eta_seconds = Eta(remaining_bytes, report.speed_bps)

\* Is the tag of the envelope the one its iv and ciphertext have under the
\* password?
TagVerifies(encrypted_data, password) ==
    /\ Len(encrypted_data) >= MIN_ENVELOPE
    /\ Slice(encrypted_data, 32, 64)
           = hmac_sha256(derive_key(password, Slice(encrypted_data, 0, 16)),
                         Slice(encrypted_data, 16, 32) \o SliceFrom(encrypted_data, 64))

\* A step of an unlock request of thread p.
UnlockStepOf(p) == pc'[p] # pc[p] /\ frame'[p].op = "unlock"

\* C34: an unlock request changes the file or its metadata only after the
\* tag of the envelope it read verified under its password and the stored
\* digest matched; a request whose password has another digest, or whose
\* envelope fails the tag, ends with an error and file and metadata as
\* they were.
C34_UnlockOnlyVerified ==
    [][\A p \in Procs : UnlockStepOf(p) =>
          /\ (files' # files \/ meta' # meta)
                => /\ TagVerifies(frame[p].encrypted_data, frame[p].password)
                   /\ frame[p].metadata.password_hash = sha256(frame[p].password)
          /\ ( /\ pc[p] = "idle"
               /\ meta[StoredPath].is_locked
               /\ meta[StoredPath].password_hash # sha256(frame'[p].password) )
                => /\ pc'[p] = "done"
                   /\ frame'[p].result.status = "error"
                   /\ UNCHANGED <<files, meta>>
          /\ (pc[p] = "ul_read" /\ ~TagVerifies(files[StoredPath], frame[p].password))
                => /\ pc'[p] = "done"
                   /\ frame'[p].result = Err("Incorrect password or corrupted file")
                   /\ UNCHANGED <<files, meta>>]_vars

\* C34 happens: the password of an unlock request had the stored digest, the
\* tag of the envelope on disk did not verify, and the request has failed
\* with the file still locked and its bytes as read.
C34_Witness ==
    \E p \in Procs :
        /\ pc[p] = "done" /\ frame[p].op = "unlock"
        /\ frame[p].result = Err("Incorrect password or corrupted file")
        /\ meta[StoredPath].is_locked
        /\ meta[StoredPath].password_hash = sha256(frame[p].password)
        /\ Len(frame[p].encrypted_data) >= MIN_ENVELOPE
        /\ files[StoredPath] = frame[p].encrypted_data

\* C35: when no lock or unlock request is under way, a file whose metadata
\* says is_locked = false holds the uploaded plaintext, and one whose
\* metadata says is_locked = true decrypts to it under the password whose
\* digest the metadata holds, that of the last accepted lock request.
C35_LockedOrPlain ==
    (\A p \in Procs : pc[p] = "idle") =>
        IF meta[StoredPath].is_locked
           THEN decrypt(files[StoredPath], meta[StoredPath].password_hash[2])
                    = Ok([data |-> HelloWorld])
           ELSE files[StoredPath] = HelloWorld

\* C36: the file an assemble_file writes without error has one payload for
\* each of the session's total_chunks indices, whatever ran between its
\* completeness check and its read of the chunk map.
C36_AllChunksWritten ==
    [][\A p \in Procs :
          (pc[p] = "af_write" /\ pc'[p] = "af_completed")
              => Len(files'[frame[p].output_path]) = sessions[frame[p].session].total_chunks]_vars
\* The places of assemble_file after its completeness check has passed.
PastCheck(p) == Assembling(p) /\ pc[p] \in {"af_write", "af_completed", "af_clear", "af_redis", "ha_finish"}

\* C37: no two threads are past the completeness check of assemble_file for
\* the same session at once.
C37_OneAssemble ==
    \A p, q \in Procs :
        (p # q /\ PastCheck(p) /\ PastCheck(q)) => frame[p].session # frame[q].session
\* C38: no request replaces a stored file or the metadata of one: a path
\* that holds a file keeps its bytes, and its metadata once saved stays.
C38_NoOverwrite ==
    [][/\ \A path \in DOMAIN files :
             path \in DOMAIN files' /\ files'[path] = files[path]
       /\ \A path \in DOMAIN meta :
             path \in DOMAIN meta' /\ meta'[path] = meta[path]]_vars

=============================================================================
